---- MODULE Spec2Model ----
(***************************************************************************)
(* grpc-tunnel: the WebSocket <-> net.Conn adapter (webSocketConn) of      *)
(* pkg/grpctunnel and pkg/bridge, and the server tunnel handler (Wrap).    *)
(*                                                                         *)
(* Two adapters are joined by a WebSocket: what the client's adapter       *)
(* writes with WriteMessage arrives, in order, in the inbound queue of the *)
(* server's WebSocket, where the server's adapter reads it.  Read, Write   *)
(* and Close are translated step by step, so that a Close can run between  *)
(* the closed-flag check of a Read or Write and its I/O.                   *)
(***************************************************************************)
EXTENDS Integers, Sequences, FiniteSets, TLC

\* ---------------------------------------------------------------- bounds
MaxSends == 2       \* Write calls and injected text frames in one behaviour
MaxMsgLen == 2      \* longest payload handed to Write
MaxBufLen == 1      \* largest buffer handed to Read
MaxClosers == 2     \* Close() calls on the server's adapter
MaxLongLen == 4     \* longest payload of the sessions that exercise the remainder

\* ------------------------------------------------------------- constants
Ends == {"client", "server"}
Peer(e) == IF e = "client" THEN "server" ELSE "client"
Closers == 1..MaxClosers
\* The tunnel carries the byte stream from the client's adapter, which writes,
\* to the server's adapter, which reads; both adapters can be closed.
Writers == {"client"}
Readers == {"server"}
Impls == {"grpctunnel", "bridge"}

\* websocket.BinaryMessage / websocket.TextMessage, and the close of the
\* connection, which makes the library's reads fail from then on.
BinaryMessage == "binary"
TextMessage == "text"
CloseFrame == "close"

\* error values
Nil == "nil"
EOF == "io.EOF"
ErrClosed == "net.ErrClosed"
ErrClosedPipe == "io.ErrClosedPipe"
WsCloseError == "websocket.CloseError"
WsNetError == "websocket.netError"

\* the payload of an injected text frame; Write payloads use bytes 1, 2, 3, ...
TextPayload == <<0>>

VARIABLES
    impl,        \* which adapter source runs at both ends
    closed,      \* [Ends -> BOOLEAN]            webSocketConn.closed
    closeOnce,   \* [Ends -> fresh|running|done] webSocketConn.closeOnce
    reader,      \* [Ends -> [open, rest]]       grpctunnel: c.reader (open = not nil)
    readBuf,     \* [Ends -> Seq(byte)]          bridge: c.readBuf
    inbound,     \* [Ends -> Seq(message)]       frames the WebSocket of e has not yet read
    wsCloseCalls,\* [Ends -> Nat]                calls of websocket.Conn.Close on e's WebSocket
    rdPc,        \* [Ends -> idle|io|rd]         position of the reader goroutine
    rdAfterClose,\* [Ends -> BOOLEAN]            the Read in progress began after a Close returned
    wrPc,        \* [Ends -> idle|io]            position of the writer goroutine
    wrData,      \* [Ends -> Seq(byte)]          p of the last Write call
    wrAfterClose,\* [Ends -> BOOLEAN]            the Write in progress began after a Close returned
    clPc,        \* [Ends -> [Closers -> idle|do|ws|done]]
    closeRet,    \* [Ends -> [Closers -> none|error]]  the value each Close() returned
    lastRead,    \* [Ends -> the last Read that returned]
    lastWrite,   \* [Ends -> the last Write that returned]
    unread,      \* [Ends -> Seq(byte)]  bytes the peer's Writes sent with a nil error
                 \*                      and no Read at e has returned yet
    streamOk,    \* [Ends -> BOOLEAN]    every Read at e returned the next bytes of
                 \*                      the stream its peer wrote
    nSends,      \* Write calls and injected text frames so far
    hpc,         \* position of the handler Wrap returns, for one request
    request,     \* the HTTP request: [method, upgrade, version, key]
    admit,       \* what options.checkOrigin(r) returns for the request
    options,     \* [onConnect, onDisconnect]: is the hook configured (not nil)
    status,      \* the HTTP status the request was answered with, 0 if none yet
    wrapped,     \* newWebSocketConn(ws) was called: the session's adapter exists
    hookCalls,   \* [connect, disconnect -> Nat]  invocations of each hook
    exitCause,   \* why ServeConn returned
    \* ---- the browser dialer and the browser adapter (pkg/wasm/dialer)
    bpc,         \* off | new | select | done | panic: the dialer; direct: NewWebSocketConn alone
    ctxDone,     \* dialContext.Done() is closed
    readyState,  \* the browser WebSocket's readyState
    closeFired,  \* the browser has delivered the WebSocket's close event
    openCh,      \* tokens buffered in the dialer's openChannel (capacity 1)
    errCh,       \* errors buffered in the dialer's errorChannel (capacity 1)
    dialRet,     \* what the dialer returned, and on which signal
    loopBlocked, \* the callback that is blocked in a channel send, if any
    onerrorBy,   \* whose function the WebSocket's onerror property holds
    bWsCloses,   \* [dialer, adapter -> Nat]  calls of the WebSocket's close method
    bClosed,     \* browserWebSocketConnection.closed (and its channels are closed)
    bOnceRuns,   \* times the function of closeChannels' closeOnce.Do has run
    msgCh,       \* incomingMessagesChannel: the queued messages
    bErrs,       \* incomingErrorsChannel: the queued errors
    bRdPc,       \* idle | select: position of the Read in progress
    bLastRead,   \* the last browser Read that returned (dst: the length of the
                 \* buffer of a Read that reached its select)
    bUnread,     \* bytes of enqueued messages that no Read has returned yet
    bStreamOk,   \* every Read returned the next bytes of the enqueued stream
    bCloseCalls, \* Close() calls made on the browser adapter
    nBEvents,    \* message and error events delivered so far
    \* ---- the clients' URL inference and dialers
    uTarget,     \* the target handed to Dial / DialContext / DialOption
    uInferred,   \* inferWebSocketURL was applied: [useTLS, url]
    uBrowser,    \* inferBrowserWebSocketURL was applied: [location, url]
    dDialer,     \* the dialer that was constructed: [kind, by, opts, tunnelOpts, wsURL]
    dialed,      \* [Addrs -> the URL the dialer connected to when invoked with addr]
    \* ---- concurrent sessions of one handler (pkg/grpctunnel)
    sHpc,        \* [Sessions -> position of the handler serving that request]
    sConn,       \* [Sessions -> the adapter `conn` of that handler call, 0 if none]
    heap,        \* the webSocketConn objects allocated so far, by address
    sWs,         \* [Sessions -> the WebSocket Upgrade made for that request]
    sIo,         \* [Sessions -> [rd -> idle|io|rd, wr -> idle|io]] a Read / Write of the session's
                 \* adapter that passed its closed check and has not returned
    \* ---- the deadline fields of pkg/bridge's adapter
    deadlines,   \* [Ends -> [read, write]]  c.readDeadline, c.writeDeadline
    lastSet      \* the last deadline setter that returned: [op, e, t, err, done]

connFields == <<closed, closeOnce, reader, readBuf>>
wsVars == <<inbound, wsCloseCalls>>
rdVars == <<rdPc, rdAfterClose>>
wrVars == <<wrPc, wrData, wrAfterClose>>
clVars == <<clPc, closeRet>>
rdObs == <<lastRead, unread, streamOk>>

connVars == <<impl, connFields, wsVars, rdVars, wrVars, clVars, rdObs,
              lastWrite, nSends>>

bVars == <<bpc, ctxDone, readyState, closeFired, openCh, errCh, dialRet, loopBlocked, onerrorBy,
           bWsCloses, bClosed, bOnceRuns, msgCh, bErrs, bRdPc, bLastRead, bUnread,
           bStreamOk, bCloseCalls, nBEvents>>

\* The state of the other components, which the adapter and the handler of
\* one session leave alone.
uVars == <<uTarget, uInferred, uBrowser, dDialer, dialed>>

iVars == <<sHpc, sConn, heap, sWs, sIo>>

dVars == <<deadlines, lastSet>>

xVars == <<bVars, uVars, iVars, dVars>>

hVars == <<hpc, request, admit, options, status, wrapped, hookCalls, exitCause, xVars>>

vars == <<connVars, hVars>>

\* ---------------------------------------------------------------- helpers
Min(a, b) == IF a < b THEN a ELSE b
Max(a, b) == IF a < b THEN b ELSE a

Take(s, n) == SubSeq(s, 1, n)
Drop(s, n) == SubSeq(s, n + 1, Len(s))
IsPrefix(s, t) == Len(s) <= Len(t) /\ Take(t, Len(s)) = s

RECURSIVE BinaryBytes(_)
\* The payload bytes of the binary messages of a queue, in order.
BinaryBytes(ms) ==
    IF ms = <<>> THEN <<>>
    ELSE IF Head(ms).type = BinaryMessage
         THEN Head(ms).data \o BinaryBytes(Tail(ms))
         ELSE BinaryBytes(Tail(ms))

Msg(t, d) == [type |-> t, data |-> d]

RECURSIVE Flatten(_)
\* The bytes of a queue of payloads, in order.
Flatten(q) == IF q = <<>> THEN <<>> ELSE Head(q) \o Flatten(Tail(q))

NoReader == [open |-> FALSE, rest |-> <<>>]
NoRead == [n |-> 0, err |-> Nil, took |-> "none", afterClose |-> FALSE,
           usedWs |-> FALSE, done |-> FALSE]
NoWrite == [n |-> 0, err |-> Nil, sent |-> <<>>, afterClose |-> FALSE,
            usedWs |-> FALSE, done |-> FALSE]

\* The part of a message the adapter of e took from its WebSocket and has not
\* yet returned: what is left in c.reader (grpctunnel) or c.readBuf (bridge).
Remainder(e) == IF impl = "grpctunnel" THEN reader[e].rest ELSE readBuf[e]

WsClosed(e) == wsCloseCalls[e] > 0
CloseReturned(e) == \E i \in Closers : clPc[e][i] = "done"

\* Payload of the k-th Write call: fresh bytes, so that a lost, duplicated or
\* reordered byte shows in the stream the Reads return.
Stride == Max(MaxMsgLen, MaxLongLen)
Payload(k, len) == [j \in 1..len |-> k * Stride + j]

\* ------------------------------------------------------------------- Init
ConnIdle ==
    /\ closed = [e \in Ends |-> FALSE]
    /\ closeOnce = [e \in Ends |-> "fresh"]
    /\ reader = [e \in Ends |-> NoReader]
    /\ readBuf = [e \in Ends |-> <<>>]
    /\ inbound = [e \in Ends |-> <<>>]
    /\ wsCloseCalls = [e \in Ends |-> 0]
    /\ rdPc = [e \in Ends |-> "idle"]
    /\ rdAfterClose = [e \in Ends |-> FALSE]
    /\ wrPc = [e \in Ends |-> "idle"]
    /\ wrData = [e \in Ends |-> <<>>]
    /\ wrAfterClose = [e \in Ends |-> FALSE]
    /\ clPc = [e \in Ends |-> [i \in Closers |-> "idle"]]
    /\ closeRet = [e \in Ends |-> [i \in Closers |-> "none"]]
    /\ lastRead = [e \in Ends |-> NoRead]
    /\ lastWrite = [e \in Ends |-> NoWrite]
    /\ unread = [e \in Ends |-> <<>>]
    /\ streamOk = [e \in Ends |-> TRUE]
    /\ nSends = 0

\* No dial was made and no browser adapter exists.
NoDial == [conn |-> FALSE, err |-> "none", via |-> "none", seen |-> "none"]
NoBRead == [n |-> 0, err |-> Nil, dst |-> 0, data |-> <<>>, done |-> FALSE]

BrowserIdle ==
    /\ bpc = "off"
    /\ ctxDone = FALSE
    /\ readyState = "NONE"
    /\ closeFired = FALSE
    /\ openCh = 0
    /\ errCh = 0
    /\ dialRet = NoDial
    /\ loopBlocked = "none"
    /\ onerrorBy = "none"
    /\ bWsCloses = [dialer |-> 0, adapter |-> 0]
    /\ bClosed = FALSE
    /\ bOnceRuns = 0
    /\ msgCh = <<>>
    /\ bErrs = <<>>
    /\ bRdPc = "idle"
    /\ bLastRead = NoBRead
    /\ bUnread = <<>>
    /\ bStreamOk = TRUE
    /\ bCloseCalls = 0
    /\ nBEvents = 0

\* The target addresses the gRPC client hands to a dialer.
Addrs == {"passthrough:///a", "passthrough:///b"}

\* Nothing was inferred, constructed or dialled.
NoLocation == [truthy |-> FALSE, protocol |-> "", host |-> <<>>]
NoInferred == [done |-> FALSE, useTLS |-> FALSE, url |-> <<>>]
NoBrowserInferred == [done |-> FALSE, location |-> NoLocation, url |-> <<>>]
NoDialer == [done |-> FALSE, kind |-> "none", by |-> "none", opts |-> <<>>,
             tunnelOpts |-> <<>>, wsURL |-> <<>>]
NotDialed == [done |-> FALSE, url |-> <<>>]

ClientIdle ==
    /\ uTarget = <<>>
    /\ uInferred = NoInferred
    /\ uBrowser = NoBrowserInferred
    /\ dDialer = NoDialer
    /\ dialed = [a \in Addrs |-> NotDialed]

Sessions == {1, 2}
NoSocket == [made |-> FALSE, open |-> FALSE, inbound |-> <<>>, sent |-> FALSE, out |-> 0,
             closes |-> 0]

IsoIdle ==
    /\ sHpc = [s \in Sessions |-> "off"]
    /\ sConn = [s \in Sessions |-> 0]
    /\ heap = <<>>
    /\ sWs = [s \in Sessions |-> NoSocket]
    /\ sIo = [s \in Sessions |-> [rd |-> "idle", wr |-> "idle"]]

\* time.Time values: the zero value, a time in the past, a time to come.
Times == {"zero", "past", "future"}
NoSet == [op |-> "none", e |-> "none", t |-> "zero", err |-> Nil, done |-> FALSE]

DeadlineIdle ==
    /\ deadlines = [e \in Ends |-> [read |-> "zero", write |-> "zero"]]
    /\ lastSet = NoSet

XIdle == BrowserIdle /\ ClientIdle /\ IsoIdle /\ DeadlineIdle

ConnInit ==
    /\ impl \in Impls
    /\ ConnIdle
    /\ XIdle

\* No request is being handled: the two adapters are used directly.
NoRequest == [method |-> "GET", upgrade |-> TRUE, version |-> TRUE, key |-> TRUE]

HandlerIdle ==
    /\ hpc = "off"
    /\ request = NoRequest
    /\ admit = TRUE
    /\ options = [onConnect |-> FALSE, onDisconnect |-> FALSE]
    /\ status = 0
    /\ wrapped = FALSE
    /\ hookCalls = [connect |-> 0, disconnect |-> 0]
    /\ exitCause = "none"

Init ==
    /\ ConnInit
    /\ HandlerIdle

\* ------------------------------------------------- the WebSocket library
\* websocket.Conn.NextReader / ReadMessage return at once when the connection
\* was closed locally or a frame is waiting; otherwise they block.
WsReadReady(e) == WsClosed(e) \/ inbound[e] # <<>>

\* A Read returns (n, err) with the bytes `data` in p[:n]; `took` is the type
\* of the message this Read took from the WebSocket, if any.
ReadReturns(e, n, err, data, took, usedWs) ==
    /\ lastRead' = [lastRead EXCEPT ![e] =
                      [n |-> n, err |-> err, took |-> took,
                       afterClose |-> rdAfterClose[e], usedWs |-> usedWs,
                       done |-> TRUE]]
    /\ streamOk' = [streamOk EXCEPT ![e] =
                      @ /\ n = Len(data) /\ IsPrefix(data, unread[e])]
    /\ unread' = [unread EXCEPT ![e] = Drop(@, Min(Len(data), Len(@)))]
    /\ rdPc' = [rdPc EXCEPT ![e] = "idle"]

\* A Write returns (n, err), having put the messages `sent` on the wire.
WriteReturns(e, n, err, sent, usedWs) ==
    /\ lastWrite' = [lastWrite EXCEPT ![e] =
                       [n |-> n, err |-> err, sent |-> sent,
                        afterClose |-> wrAfterClose[e], usedWs |-> usedWs,
                        done |-> TRUE]]
    /\ inbound' = [inbound EXCEPT ![Peer(e)] = @ \o sent]
    /\ unread' = [unread EXCEPT ![Peer(e)] =
                    IF err = Nil THEN @ \o wrData[e] ELSE @]
    /\ wrPc' = [wrPc EXCEPT ![e] = "idle"]

\* --------------------------------------------------------------- Read
\* The closed-flag check that opens Read(p): a closed adapter returns
\* (0, closedErr) without touching the WebSocket. The check does not look at
\* p, whose length len(p) is an input of the step that uses it.
ReadCheckClosed(e, closedErr) ==
    /\ rdPc[e] = "idle"
    /\ IF closed[e]
       THEN /\ lastRead' = [lastRead EXCEPT ![e] =
                              [n |-> 0, err |-> closedErr, took |-> "none",
                               afterClose |-> CloseReturned(e),
                               usedWs |-> FALSE, done |-> TRUE]]
            /\ UNCHANGED <<rdVars, unread, streamOk>>
       ELSE /\ rdPc' = [rdPc EXCEPT ![e] = "io"]
            /\ rdAfterClose' = [rdAfterClose EXCEPT ![e] = CloseReturned(e)]
            /\ UNCHANGED rdObs
    /\ UNCHANGED <<hVars, impl, connFields, wsVars, wrVars, clVars, lastWrite, nSends>>

\* pkg/grpctunnel: Read returns io.EOF on a closed adapter.
TunnelReadBegin(e) ==
    /\ impl = "grpctunnel"
    /\ ReadCheckClosed(e, EOF)

\* pkg/bridge: Read returns net.ErrClosed on a closed adapter.
BridgeReadBegin(e) ==
    /\ impl = "bridge"
    /\ ReadCheckClosed(e, ErrClosed)

\* messageType != websocket.BinaryMessage: only binary messages are accepted.
IsBinary(t) == t = BinaryMessage

\* A faulty Read that hands the library's end-of-message error to its caller.
ReaderErrorKept(err) == err

\* if err == io.EOF { c.reader = nil; err = nil }: the error Read returns
\* after c.reader.Read(p) returned err.
AfterReaderRead(err) == IF err = EOF THEN Nil ELSE err

\* c.reader.Read(p) of pkg/grpctunnel, on a message reader with `rest` left:
\* at the end of the message the library returns (0, io.EOF), which Read
\* turns into (0, nil) and a nil reader; otherwise it returns between 1 and
\* len(p) of the remaining bytes (the library may return fewer than asked),
\* or the error of a connection that was closed meanwhile.
TunnelReaderRead(e, len, rest, took) ==
    \/ /\ rest = <<>>
       /\ reader' = [reader EXCEPT ![e] = NoReader]
       /\ ReadReturns(e, 0, AfterReaderRead(EOF), <<>>, took, TRUE)
    \/ /\ rest # <<>>
       /\ \E n \in 1..Min(len, Len(rest)) :
            /\ reader' = [reader EXCEPT ![e] = [open |-> TRUE, rest |-> Drop(rest, n)]]
            /\ ReadReturns(e, n, Nil, Take(rest, n), took, TRUE)
    \/ /\ WsClosed(e)
       /\ reader' = [reader EXCEPT ![e] = [open |-> TRUE, rest |-> rest]]
       /\ ReadReturns(e, 0, WsNetError, <<>>, took, TRUE)

\* Read(p) of pkg/grpctunnel after the closed check, len(p) = len, with no
\* lock held. With a message in progress it goes to c.reader.Read(p) at once.
\* Otherwise c.ws.NextReader(): its error is returned; a non-binary message is
\* consumed and Read returns (0, io.EOF); a binary message is taken from the
\* WebSocket and its reader stored in c.reader, and c.reader.Read(p) is a
\* second call into the connection, which a Close can precede.
TunnelReadIO(e, len) ==
    /\ impl = "grpctunnel"
    /\ rdPc[e] = "io"
    /\ IF reader[e].open
       THEN /\ TunnelReaderRead(e, len, reader[e].rest, "none")
            /\ UNCHANGED inbound
       ELSE /\ WsReadReady(e)
            /\ IF WsClosed(e)
               THEN /\ ReadReturns(e, 0, WsNetError, <<>>, "none", TRUE)
                    /\ UNCHANGED <<reader, inbound>>
               ELSE LET m == Head(inbound[e]) IN
                    CASE m.type = CloseFrame ->
                           /\ ReadReturns(e, 0, WsCloseError, <<>>, "none", TRUE)
                           /\ UNCHANGED <<reader, inbound>>
                      [] m.type # CloseFrame /\ ~IsBinary(m.type) ->
                           /\ inbound' = [inbound EXCEPT ![e] = Tail(@)]
                           /\ ReadReturns(e, 0, EOF, <<>>, m.type, TRUE)
                           /\ UNCHANGED reader
                      [] m.type # CloseFrame /\ IsBinary(m.type) ->
                           /\ inbound' = [inbound EXCEPT ![e] = Tail(@)]
                           /\ reader' = [reader EXCEPT ![e] =
                                            [open |-> TRUE, rest |-> m.data]]
                           /\ rdPc' = [rdPc EXCEPT ![e] = "rd"]
                           /\ UNCHANGED rdObs
    /\ UNCHANGED <<hVars, impl, closed, closeOnce, readBuf, wsCloseCalls,
                   rdAfterClose, wrVars, clVars, lastWrite, nSends>>

\* Read(p) of pkg/grpctunnel, len(p) = len: c.reader.Read(p) on the reader of
\* the binary message NextReader has just returned.
TunnelReadPayload(e, len) ==
    /\ impl = "grpctunnel"
    /\ rdPc[e] = "rd"
    /\ TunnelReaderRead(e, len, reader[e].rest, BinaryMessage)
    /\ UNCHANGED <<hVars, impl, closed, closeOnce, readBuf, wsVars,
                   rdAfterClose, wrVars, clVars, lastWrite, nSends>>

\* copy(destinationBuffer, src): the bytes copied.
Copied(len, src) == Take(src, Min(len, Len(src)))

\* A faulty Read that keeps the whole message as the remainder.
KeepsWholeMessage(old, data, n) == IF n < Len(data) THEN data ELSE old

\* A faulty Read that forgets the part of a message that did not fit.
ForgetsRemainder(old, data, n) == old

\* if bytesRead < len(messageData) { c.readBuf = messageData[bytesRead:] }
KeptRemainder(old, data, n) == IF n < Len(data) THEN Drop(data, n) ELSE old

\* A faulty Read that drops what is left of the remainder.
RemainderDropped(buf, n) == <<>>

\* c.readBuf = c.readBuf[bytesRead:]
RestOfRemainder(buf, n) == Drop(buf, n)

BridgeReadIO(e, len) ==
    /\ impl = "bridge"
    /\ rdPc[e] = "io"
    /\ IF Len(readBuf[e]) > 0
       THEN LET got == Copied(len, readBuf[e]) IN
            /\ readBuf' = [readBuf EXCEPT ![e] = RestOfRemainder(@, Len(got))]
            /\ ReadReturns(e, Len(got), Nil, got, "none", FALSE)
            /\ UNCHANGED inbound
       ELSE /\ WsReadReady(e)
            /\ IF WsClosed(e)
               THEN /\ ReadReturns(e, 0, WsNetError, <<>>, "none", TRUE)
                    /\ UNCHANGED <<readBuf, inbound>>
               ELSE LET m == Head(inbound[e]) IN
                    CASE m.type = CloseFrame ->
                           /\ ReadReturns(e, 0, WsCloseError, <<>>, "none", TRUE)
                           /\ UNCHANGED <<readBuf, inbound>>
                      [] m.type # CloseFrame /\ ~IsBinary(m.type) ->
                           /\ inbound' = [inbound EXCEPT ![e] = Tail(@)]
                           /\ ReadReturns(e, 0, ErrClosed, <<>>, m.type, TRUE)
                           /\ UNCHANGED readBuf
                      [] m.type # CloseFrame /\ IsBinary(m.type) ->
                           LET got == Copied(len, m.data) IN
                           /\ inbound' = [inbound EXCEPT ![e] = Tail(@)]
                           /\ readBuf' = [readBuf EXCEPT ![e] =
                                            KeptRemainder(@, m.data, Len(got))]
                           /\ ReadReturns(e, Len(got), Nil, got, m.type, TRUE)
    /\ UNCHANGED <<hVars, impl, closed, closeOnce, reader, wsCloseCalls,
                   rdAfterClose, wrVars, clVars, lastWrite, nSends>>

\* --------------------------------------------------------------- Write
\* A faulty Write that does not look at the closed flag.
WriteIgnoresClosed(e, p, closedErr) ==
    /\ wrPc[e] = "idle"
    /\ nSends < MaxSends
    /\ nSends' = nSends + 1
    /\ wrData' = [wrData EXCEPT ![e] = p]
    /\ wrPc' = [wrPc EXCEPT ![e] = "io"]
    /\ wrAfterClose' = [wrAfterClose EXCEPT ![e] = CloseReturned(e)]
    /\ UNCHANGED <<hVars, impl, connFields, wsVars, rdVars, clVars, rdObs, lastWrite>>

\* The closed-flag check that opens Write; p is the payload of this call.
WriteCheckClosed(e, p, closedErr) ==
    /\ wrPc[e] = "idle"
    /\ nSends < MaxSends
    /\ nSends' = nSends + 1
    /\ wrData' = [wrData EXCEPT ![e] = p]
    /\ IF closed[e]
       THEN /\ lastWrite' = [lastWrite EXCEPT ![e] =
                               [n |-> 0, err |-> closedErr, sent |-> <<>>,
                                afterClose |-> CloseReturned(e),
                                usedWs |-> FALSE, done |-> TRUE]]
            /\ UNCHANGED <<wrPc, wrAfterClose>>
       ELSE /\ wrPc' = [wrPc EXCEPT ![e] = "io"]
            /\ wrAfterClose' = [wrAfterClose EXCEPT ![e] = CloseReturned(e)]
            /\ UNCHANGED lastWrite
    /\ UNCHANGED <<hVars, impl, connFields, wsVars, rdVars, clVars, rdObs>>

\* pkg/grpctunnel: Write returns io.ErrClosedPipe on a closed adapter.
TunnelWriteBegin(e, p) ==
    /\ impl = "grpctunnel"
    /\ WriteCheckClosed(e, p, ErrClosedPipe)

\* pkg/bridge: Write returns net.ErrClosed on a closed adapter.
BridgeWriteBegin(e, p) ==
    /\ impl = "bridge"
    /\ WriteCheckClosed(e, p, ErrClosed)

\* A faulty Write that sends a payload of several bytes as two messages.
WireSplit(p) ==
    IF Len(p) > 1
    THEN <<Msg(BinaryMessage, Take(p, 1)), Msg(BinaryMessage, Drop(p, 1))>>
    ELSE <<Msg(BinaryMessage, p)>>

\* The messages WriteMessage(BinaryMessage, p) puts on the wire.
WireMessages(p) == <<Msg(BinaryMessage, p)>>

\* WriteMessage can send on the WebSocket of e: the connection was not closed
\* locally. That a write on a connection closed by ws.Close() fails and sends
\* nothing is the contract of the WebSocket library and of net.Conn, which
\* the adapter relies on.
CanSend(e) == ~WsClosed(e)

\* c.ws.WriteMessage(websocket.BinaryMessage, p) and the return of Write:
\* the library fails on a connection that was closed locally, and may fail
\* or still succeed once the peer has closed its side; a failed write sends
\* nothing.
WriteIO(e) ==
    /\ wrPc[e] = "io"
    /\ \/ /\ WsClosed(e) \/ WsClosed(Peer(e))
          /\ WriteReturns(e, 0, WsNetError, <<>>, TRUE)
       \/ /\ CanSend(e)
          /\ WriteReturns(e, Len(wrData[e]), Nil, WireMessages(wrData[e]), TRUE)
    /\ UNCHANGED <<hVars, impl, connFields, wsCloseCalls, rdVars, wrData, wrAfterClose,
                   clVars, lastRead, streamOk, nSends>>

TunnelWriteIO(e) ==
    /\ impl = "grpctunnel"
    /\ WriteIO(e)

BridgeWriteIO(e) ==
    /\ impl = "bridge"
    /\ WriteIO(e)

\* --------------------------------------------------------------- Close
\* A faulty Close without the once-guard: every caller runs the close action.
CloseEnterNoOnce(e, i) ==
    /\ clPc[e][i] = "idle"
    /\ \A j \in Closers : j < i => clPc[e][j] # "idle"
    /\ closeOnce[e] # "running"
    /\ closeOnce' = [closeOnce EXCEPT ![e] = "running"]
    /\ clPc' = [clPc EXCEPT ![e][i] = "do"]
    /\ UNCHANGED closeRet
    /\ UNCHANGED <<hVars, impl, closed, reader, readBuf, wsVars, rdVars, wrVars,
                   rdObs, lastWrite, nSends>>

\* Close() calls are numbered in the order in which they reach closeOnce.Do.
\* closeOnce.Do(f): the first caller runs f; a caller that arrives while f
\* runs waits for it; a caller that arrives after f returned skips f, and
\* its Close returns the zero value of `var err error`.
CloseEnter(e, i) ==
    /\ clPc[e][i] = "idle"
    /\ \A j \in Closers : j < i => clPc[e][j] # "idle"
    /\ closeOnce[e] # "running"
    /\ IF closeOnce[e] = "fresh"
       THEN /\ closeOnce' = [closeOnce EXCEPT ![e] = "running"]
            /\ clPc' = [clPc EXCEPT ![e][i] = "do"]
            /\ UNCHANGED closeRet
       ELSE /\ clPc' = [clPc EXCEPT ![e][i] = "done"]
            /\ closeRet' = [closeRet EXCEPT ![e][i] = Nil]
            /\ UNCHANGED closeOnce
    /\ UNCHANGED <<hVars, impl, closed, reader, readBuf, wsVars, rdVars, wrVars,
                   rdObs, lastWrite, nSends>>

\* websocket.Conn.Close on the WebSocket of e: the first call closes the
\* network connection, which the peer's reader meets after the frames already
\* on the wire.
WsClose(e) ==
    /\ wsCloseCalls' = [wsCloseCalls EXCEPT ![e] = @ + 1]
    /\ inbound' = [inbound EXCEPT ![Peer(e)] =
                     IF WsClosed(e) THEN @ ELSE Append(@, Msg(CloseFrame, <<>>))]

\* The function Close hands to closeOnce.Do, first part:
\* c.closedMu.Lock(); c.closed = true; c.closedMu.Unlock(). The lock is
\* released before the WebSocket is closed, so Reads and Writes of other
\* goroutines can run in between.
CloseSetClosed(e, i) ==
    /\ clPc[e][i] = "do"
    /\ closed' = [closed EXCEPT ![e] = TRUE]
    /\ clPc' = [clPc EXCEPT ![e][i] = "ws"]
    /\ UNCHANGED <<hVars, impl, closeOnce, reader, readBuf, wsVars, rdVars, wrVars,
                   closeRet, rdObs, lastWrite, nSends>>

\* The function Close hands to closeOnce.Do, second part, and the return of
\* Close: err = c.ws.Close(). The library returns the error of closing the
\* network connection, if any.
CloseDo(e, i) ==
    /\ clPc[e][i] = "ws"
    /\ WsClose(e)
    /\ \E err \in {Nil, WsNetError} :
         closeRet' = [closeRet EXCEPT ![e][i] = err]
    /\ closeOnce' = [closeOnce EXCEPT ![e] = "done"]
    /\ clPc' = [clPc EXCEPT ![e][i] = "done"]
    /\ UNCHANGED <<hVars, impl, closed, reader, readBuf, rdVars, wrVars, rdObs, lastWrite,
                   nSends>>

\* ---------------------------------------------------------- environment
\* The peer of e sends a text frame on its WebSocket, bypassing its adapter.
PeerSendText(e) ==
    /\ nSends < MaxSends
    /\ ~WsClosed(Peer(e))
    /\ nSends' = nSends + 1
    /\ inbound' = [inbound EXCEPT ![e] = Append(@, Msg(TextMessage, TextPayload))]
    /\ UNCHANGED <<hVars, impl, connFields, wsCloseCalls, rdVars, wrVars, clVars,
                   rdObs, lastWrite>>

\* ------------------------------------------------------------------- Next
BufLens == 1..MaxBufLen
Payloads == {Payload(nSends, len) : len \in 0..MaxMsgLen}

Next ==
    \/ \E e \in Readers : TunnelReadBegin(e)
    \/ \E e \in Readers, len \in BufLens : TunnelReadIO(e, len)
    \/ \E e \in Readers, len \in BufLens : TunnelReadPayload(e, len)
    \/ \E e \in Readers : BridgeReadBegin(e)
    \/ \E e \in Readers, len \in BufLens : BridgeReadIO(e, len)
    \/ \E e \in Writers, p \in Payloads : TunnelWriteBegin(e, p)
    \/ \E e \in Writers : TunnelWriteIO(e)
    \/ \E e \in Writers, p \in Payloads : BridgeWriteBegin(e, p)
    \/ \E e \in Writers : BridgeWriteIO(e)
    \/ \E i \in Closers : CloseEnter("server", i)
    \/ \E i \in Closers : CloseSetClosed("server", i)
    \/ \E i \in Closers : CloseDo("server", i)
    \/ CloseEnter("client", 1)
    \/ CloseSetClosed("client", 1)
    \/ CloseDo("client", 1)
    \/ \E e \in Readers : PeerSendText(e)

Spec == Init /\ [][Next]_vars

\* The caller of the reading end keeps calling Read: a Read that can begin or
\* return does so.
ReadStep(e) ==
    \/ TunnelReadBegin(e)
    \/ BridgeReadBegin(e)
    \/ \E len \in BufLens : TunnelReadIO(e, len)
    \/ \E len \in BufLens : TunnelReadPayload(e, len)
    \/ \E len \in BufLens : BridgeReadIO(e, len)

FairSpec == Spec /\ \A e \in Readers : WF_vars(ReadStep(e))

\* ------------------------------- pkg/bridge with messages that leave a
\* remainder of several bytes
\* The writer sends payloads of up to MaxLongLen bytes and the reader's
\* buffers hold up to MaxBufLen + 1 bytes, so that a remainder can be served
\* in several Reads, each leaving a rest.
LongPayloads == {Payload(nSends, len) : len \in 0..MaxLongLen}
LongBufLens == 1..(MaxBufLen + 1)

RemainderInit == Init /\ impl = "bridge"

RemainderNext ==
    \/ \E e \in Readers : BridgeReadBegin(e)
    \/ \E e \in Readers, len \in LongBufLens : BridgeReadIO(e, len)
    \/ \E e \in Writers, p \in LongPayloads : BridgeWriteBegin(e, p)
    \/ \E e \in Writers : BridgeWriteIO(e)
    \/ CloseEnter("server", 1)
    \/ CloseSetClosed("server", 1)
    \/ CloseDo("server", 1)
    \/ \E e \in Readers : PeerSendText(e)

RemainderSpec == RemainderInit /\ [][RemainderNext]_vars

\* ------------------------------------------------- the server handler
\* A faulty upgrader that never consults CheckOrigin.
UpgradeStatusAnyOrigin(r, originOk) ==
    IF ~r.upgrade THEN 400
    ELSE IF r.method # "GET" THEN 405
    ELSE IF ~r.version THEN 400
    ELSE IF ~r.key THEN 400
    ELSE 101

\* upgrader.Upgrade(w, r, nil): the status the library answers the request
\* with. A handshake that is not a WebSocket upgrade (no Connection: upgrade
\* and Upgrade: websocket headers, a method other than GET, a version other
\* than 13, no valid key) is an error; CheckOrigin is consulted on a
\* well-formed upgrade request and refuses it with 403; only then does the
\* library hijack the connection and answer 101 Switching Protocols.
UpgradeStatus(r, originOk) ==
    IF ~r.upgrade THEN 400
    ELSE IF r.method # "GET" THEN 405
    ELSE IF ~r.version THEN 400
    ELSE IF ~originOk THEN 403
    ELSE IF ~r.key THEN 400
    ELSE 101

\* A faulty handler that goes on after a failed upgrade.
HUpgradeIgnoresError ==
    /\ hpc = "start"
    /\ status' = UpgradeStatus(request, admit)
    /\ hpc' = "upgraded"
    /\ UNCHANGED <<connVars, xVars, request, admit, options, wrapped, hookCalls, exitCause>>

\* ws, err := upgrader.Upgrade(w, r, nil); if err != nil { return }; defer ws.Close()
HUpgrade ==
    /\ hpc = "start"
    /\ status' = UpgradeStatus(request, admit)
    /\ hpc' = IF status' = 101 THEN "upgraded" ELSE "done"
    /\ UNCHANGED <<connVars, xVars, request, admit, options, wrapped, hookCalls, exitCause>>

\* A faulty handler that never invokes the connect hook.
HConnectHookSkipped ==
    /\ hpc = "upgraded"
    /\ hpc' = "hooked"
    /\ UNCHANGED <<connVars, xVars, request, admit, options, status, wrapped, hookCalls,
                   exitCause>>

\* if options.onConnect != nil { options.onConnect(r) }; defer func() {...}()
HConnectHook ==
    /\ hpc = "upgraded"
    /\ hookCalls' = [hookCalls EXCEPT !.connect =
                       IF options.onConnect THEN @ + 1 ELSE @]
    /\ hpc' = "hooked"
    /\ UNCHANGED <<connVars, xVars, request, admit, options, status, wrapped, exitCause>>

\* conn := newWebSocketConn(ws); defer conn.Close(); h2Server.ServeConn(conn, ...)
HWrap ==
    /\ hpc = "hooked"
    /\ wrapped' = TRUE
    /\ hpc' = "serving"
    /\ UNCHANGED <<connVars, xVars, request, admit, options, status, hookCalls, exitCause>>

\* ServeConn returns: the HTTP/2 server gave up the connection, because a
\* Read returned an error (the peer closed, a text frame arrived) or because
\* of an HTTP/2 protocol error, which can happen at any time.
HServeReturn ==
    /\ hpc = "serving"
    /\ exitCause' = IF lastRead["server"].done /\ lastRead["server"].err # Nil
                    THEN "readError" ELSE "protocolError"
    /\ hpc' = "served"
    /\ UNCHANGED <<connVars, xVars, request, admit, options, status, wrapped, hookCalls>>

\* The deferred conn.Close() has run.
HConnClosed ==
    /\ hpc = "served"
    /\ clPc["server"][1] = "done"
    /\ hpc' = "closed"
    /\ UNCHANGED <<connVars, xVars, request, admit, options, status, wrapped, hookCalls,
                   exitCause>>

\* A handler that pairs the hooks: disconnect is invoked only if connect was.
HDisconnectHookPaired ==
    /\ hpc = "closed"
    /\ hookCalls' = [hookCalls EXCEPT !.disconnect =
                       IF options.onDisconnect /\ hookCalls.connect > 0
                       THEN @ + 1 ELSE @]
    /\ hpc' = "unhooked"
    /\ UNCHANGED <<connVars, xVars, request, admit, options, status, wrapped, exitCause>>

\* The deferred func: if options.onDisconnect != nil { options.onDisconnect(r) }
HDisconnectHook ==
    /\ hpc = "closed"
    /\ hookCalls' = [hookCalls EXCEPT !.disconnect =
                       IF options.onDisconnect THEN @ + 1 ELSE @]
    /\ hpc' = "unhooked"
    /\ UNCHANGED <<connVars, xVars, request, admit, options, status, wrapped, exitCause>>

\* The deferred ws.Close(), and the return of the handler.
HWsClose ==
    /\ hpc = "unhooked"
    /\ WsClose("server")
    /\ hpc' = "done"
    /\ UNCHANGED <<xVars, impl, connFields, rdVars, wrVars, clVars, rdObs, lastWrite,
                   nSends, request, admit, options, status, wrapped, hookCalls,
                   exitCause>>

\* The client has a WebSocket once the server answered 101.
Upgraded == status = 101

Requests == [method : {"GET", "POST"}, upgrade : BOOLEAN, version : BOOLEAN,
             key : BOOLEAN]

HandlerInit ==
    /\ ConnInit
    /\ hpc = "start"
    /\ request \in Requests
    /\ admit \in BOOLEAN
    /\ options \in [onConnect : BOOLEAN, onDisconnect : BOOLEAN]
    /\ status = 0
    /\ wrapped = FALSE
    /\ hookCalls = [connect |-> 0, disconnect |-> 0]
    /\ exitCause = "none"

\* What the handler's session carries here: the client writes MaxMsgLen-byte
\* chunks of its HTTP/2 stream, the HTTP/2 server reads with a buffer that
\* holds a whole chunk.
HPayload == Payload(nSends, MaxMsgLen)
HBufLen == MaxMsgLen

HandlerNext ==
    \/ HUpgrade
    \/ HConnectHook
    \/ HWrap
    \/ HServeReturn
    \/ HConnClosed
    \/ HDisconnectHook
    \/ HWsClose
    \/ hpc = "serving" /\ TunnelReadBegin("server")
    \/ wrapped /\ TunnelReadIO("server", HBufLen)
    \/ wrapped /\ TunnelReadPayload("server", HBufLen)
    \/ hpc = "serving" /\ BridgeReadBegin("server")
    \/ wrapped /\ BridgeReadIO("server", HBufLen)
    \/ hpc = "served" /\ CloseEnter("server", 1)
    \/ hpc = "served" /\ CloseSetClosed("server", 1)
    \/ hpc = "served" /\ CloseDo("server", 1)
    \/ Upgraded /\ TunnelWriteBegin("client", HPayload)
    \/ Upgraded /\ TunnelWriteIO("client")
    \/ Upgraded /\ BridgeWriteBegin("client", HPayload)
    \/ Upgraded /\ BridgeWriteIO("client")
    \/ Upgraded /\ CloseEnter("client", 1)
    \/ Upgraded /\ CloseSetClosed("client", 1)
    \/ Upgraded /\ CloseDo("client", 1)
    \/ Upgraded /\ PeerSendText("server")

HandlerSpec == HandlerInit /\ [][HandlerNext]_vars

\* ================================= the browser dialer and browser adapter
\* make(chan []byte, 10) and make(chan error, 2) of NewWebSocketConn.
IncomingCap == 10
ErrorCap == 2
\* make(chan error, 1) and make(chan struct{}, 1) of the dialer.
DialChanCap == 1

\* The error values of the dialer: status.Errorf(codes.Unavailable, ...) and
\* dialContext.Err().
Unavailable == "codes.Unavailable"
CtxErr == "context.Err"

bConn == <<bClosed, bOnceRuns, msgCh, bErrs>>
bDial == <<bpc, ctxDone, openCh, errCh, dialRet, onerrorBy>>
bReadVars == <<bRdPc, bLastRead, bUnread, bStreamOk>>

\* The adapter is in the hands of a caller: the dialer returned it, or it was
\* made by NewWebSocketConn directly.
AdapterInUse == bpc = "direct" \/ (bpc = "done" /\ dialRet.conn)

\* The dialer's select has a ready case; the select of a Read has one.
DialReady == bpc = "select" /\ (openCh > 0 \/ errCh > 0 \/ ctxDone)
ReadReady == bRdPc = "select" /\ (msgCh # <<>> \/ bErrs # <<>> \/ bClosed)

\* The browser runs one callback at a time, and the single-threaded Go
\* runtime returns to the browser's event loop only when no goroutine can
\* run: no event is delivered while a callback has not returned or while the
\* dialer or a Read can leave its select.
LoopFree == loopBlocked = "none" /\ ~DialReady /\ ~ReadReady

\* The gRPC client is about to invoke the dialer and no WebSocket exists
\* (readyState NONE), or an adapter was made by NewWebSocketConn directly on a
\* connecting WebSocket, with its onmessage, onerror and onclose registered.
BrowserInit ==
    /\ impl = "grpctunnel"
    /\ ConnIdle
    /\ HandlerIdle
    /\ bpc \in {"new", "direct"}
    /\ onerrorBy = IF bpc = "new" THEN "none" ELSE "adapter"
    /\ ctxDone = FALSE
    /\ readyState = IF bpc = "new" THEN "NONE" ELSE "CONNECTING"
    /\ closeFired = FALSE
    /\ openCh = 0
    /\ errCh = 0
    /\ dialRet = NoDial
    /\ loopBlocked = "none"
    /\ bWsCloses = [dialer |-> 0, adapter |-> 0]
    /\ bClosed = FALSE
    /\ bOnceRuns = 0
    /\ msgCh = <<>>
    /\ bErrs = <<>>
    /\ bRdPc = "idle"
    /\ bLastRead = NoBRead
    /\ bUnread = <<>>
    /\ bStreamOk = TRUE
    /\ bCloseCalls = 0
    /\ nBEvents = 0
    /\ ClientIdle
    /\ IsoIdle
    /\ DeadlineIdle

\* dialContext is cancelled or times out, at any moment: before the dialer
\* is invoked, while it is parked in its select, after an event's send has
\* woken the select and before the dialer runs on, or after the dialer has
\* returned.
CtxCancel ==
    /\ bpc \in {"new", "select", "done"}
    /\ ~ctxDone
    /\ ctxDone' = TRUE
    /\ UNCHANGED <<connVars, hpc, request, admit, options, status, wrapped, hookCalls,
                   exitCause, uVars, iVars, dVars, bpc, readyState, closeFired, openCh, errCh, dialRet, loopBlocked,
                   onerrorBy, bWsCloses, bConn, bReadVars, bCloseCalls, nBEvents>>

\* The open event: the WebSocket becomes OPEN and the browser calls onopen,
\* which the dialer registered; with no dialer no function is registered.
\* onopen does openChannel <- struct{}{}: a send that waits while the
\* channel's buffer is full.
BOpenEvent ==
    /\ LoopFree
    /\ bpc # "off"
    /\ readyState = "CONNECTING"
    /\ readyState' = "OPEN"
    /\ IF bpc = "direct"
       THEN UNCHANGED <<openCh, loopBlocked>>
       ELSE IF openCh < DialChanCap
            THEN openCh' = openCh + 1 /\ UNCHANGED loopBlocked
            ELSE loopBlocked' = "onopen" /\ UNCHANGED openCh
    /\ UNCHANGED <<connVars, hpc, request, admit, options, status, wrapped, hookCalls,
                   exitCause, uVars, iVars, dVars, bpc, ctxDone, closeFired, errCh, dialRet, onerrorBy,
                   bWsCloses, bConn, bReadVars, bCloseCalls, nBEvents>>

\* The function the dialer sets as onerror: errorChannel <- status.Errorf(...),
\* a send that waits while the channel's buffer is full.
DialerOnError ==
    /\ IF errCh < DialChanCap
       THEN errCh' = errCh + 1 /\ UNCHANGED loopBlocked
       ELSE loopBlocked' = "onerror" /\ UNCHANGED errCh
    /\ UNCHANGED bErrs

\* The function NewWebSocketConn sets as onerror: a non-blocking send of
\* net.ErrClosed, unless the adapter is closed or the channel is full.
AdapterOnError ==
    /\ bErrs' = IF ~bClosed /\ Len(bErrs) < ErrorCap
                THEN Append(bErrs, ErrClosed) ELSE bErrs
    /\ UNCHANGED <<errCh, loopBlocked>>

\* An error event: the browser calls the function held by onerror. The
\* browser fires the event when the connection has failed, in its closing
\* steps: the ready state is CLOSED by then, and the close event comes after
\* it. Any number of error events can come before the close event.
BErrorEvent ==
    /\ LoopFree
    /\ bpc # "off"
    /\ readyState # "NONE"
    /\ ~closeFired
    /\ nBEvents < MaxSends
    /\ nBEvents' = nBEvents + 1
    /\ readyState' = "CLOSED"
    /\ IF onerrorBy = "dialer" THEN DialerOnError ELSE AdapterOnError
    /\ UNCHANGED <<connVars, hpc, request, admit, options, status, wrapped, hookCalls,
                   exitCause, uVars, iVars, dVars, bpc, ctxDone, closeFired, openCh, dialRet, onerrorBy,
                   bWsCloses, bClosed, bOnceRuns, msgCh, bReadVars, bCloseCalls>>

\* A faulty onmessage whose send has no room limit.
OnMessageUnbounded(messageBytes) ==
    IF Len(messageBytes) > 0 /\ ~bClosed
    THEN /\ msgCh' = Append(msgCh, messageBytes)
         /\ bUnread' = bUnread \o messageBytes
    ELSE UNCHANGED <<msgCh, bUnread>>

\* A faulty onmessage that makes room by dropping the oldest queued message.
OnMessageDropOldest(messageBytes) ==
    IF Len(messageBytes) > 0 /\ ~bClosed
    THEN /\ msgCh' = Append(IF Len(msgCh) < IncomingCap THEN msgCh ELSE Tail(msgCh),
                            messageBytes)
         /\ bUnread' = bUnread \o messageBytes
    ELSE UNCHANGED <<msgCh, bUnread>>

\* A faulty onmessage that does not look at the closed flag.
OnMessageAfterClose(messageBytes) ==
    IF Len(messageBytes) > 0 /\ Len(msgCh) < IncomingCap
    THEN /\ msgCh' = Append(msgCh, messageBytes)
         /\ bUnread' = bUnread \o messageBytes
    ELSE UNCHANGED <<msgCh, bUnread>>

\* The function NewWebSocketConn sets as onmessage: a non-empty payload is
\* enqueued with a non-blocking send, unless the adapter is closed or the
\* channel is full; then the payload is dropped.
OnMessage(messageBytes) ==
    IF Len(messageBytes) > 0 /\ ~bClosed /\ Len(msgCh) < IncomingCap
    THEN /\ msgCh' = Append(msgCh, messageBytes)
         /\ bUnread' = bUnread \o messageBytes
    ELSE UNCHANGED <<msgCh, bUnread>>

\* A message event with payload messageBytes: the browser calls onmessage.
BMessageEvent(messageBytes) ==
    /\ LoopFree
    /\ bpc # "off"
    /\ readyState \in {"OPEN", "CLOSING"}
    /\ nBEvents < MaxSends
    /\ nBEvents' = nBEvents + 1
    /\ OnMessage(messageBytes)
    /\ UNCHANGED <<connVars, hpc, request, admit, options, status, wrapped, hookCalls,
                   exitCause, uVars, iVars, dVars, bDial, readyState, closeFired, loopBlocked, bWsCloses, bClosed,
                   bOnceRuns, bErrs, bRdPc, bLastRead, bStreamOk, bCloseCalls>>

\* A faulty onclose that leaves the adapter open.
CloseChannelsSkipped == UNCHANGED <<bClosed, bOnceRuns>>

\* A faulty guard that runs the function on every call.
OnceDoUnguarded(runs) == runs + 1

\* closeOnce.Do(f): f runs on the first call only; the result is the number of
\* times f has run.
OnceDo(runs) == IF runs = 0 THEN 1 ELSE runs

\* closeChannels(): once, set the closed flag and close both channels.
CloseChannels ==
    /\ bClosed' = TRUE
    /\ bOnceRuns' = OnceDo(bOnceRuns)

\* The close event, which the browser delivers once: the WebSocket is CLOSED
\* and the browser calls onclose, which calls closeChannels().
BCloseEvent ==
    /\ LoopFree
    /\ bpc # "off"
    /\ readyState # "NONE"
    /\ ~closeFired
    /\ readyState' = "CLOSED"
    /\ closeFired' = TRUE
    /\ CloseChannels
    /\ UNCHANGED <<connVars, hpc, request, admit, options, status, wrapped, hookCalls,
                   exitCause, uVars, iVars, dVars, bDial, loopBlocked, bWsCloses, msgCh, bErrs, bReadVars,
                   bCloseCalls, nBEvents>>

\* The WebSocket's close method: a connecting or open WebSocket starts
\* closing; the close event follows later.
AfterJsClose(state) == IF state \in {"CONNECTING", "OPEN"} THEN "CLOSING" ELSE state

\* A faulty dialer that returns the adapter whatever its select took.
DialOutcomeAlwaysAdapter(signal) ==
    [conn |-> TRUE,
     err |-> IF signal = "open" THEN Nil
             ELSE IF signal = "ctx" THEN CtxErr ELSE Unavailable]

\* What the dialer returns: (nil, Unavailable) when the environment has no
\* WebSocket constructor; after its select took the open signal, the error
\* signal or the cancellation: (adapter, nil), (nil, err) with the
\* Unavailable status made by the dialer's onerror, or (nil, dialContext.Err()).
DialOutcome(signal) ==
    [conn |-> signal = "open",
     err |-> IF signal = "open" THEN Nil
             ELSE IF signal = "ctx" THEN CtxErr ELSE Unavailable]

\* What js.Global().Get("WebSocket") and its New can do: the constructor is
\* missing, it throws (a malformed URL), or it makes a WebSocket.
Constructors == {"absent", "throws", "ok"}

\* The dialer up to its select. Without a WebSocket constructor it returns
\* (nil, Unavailable) at once: nothing is created and no callback is
\* registered. A constructor that throws makes New panic, and the dialer
\* never returns. Otherwise the WebSocket is created (CONNECTING),
\* NewWebSocketConn registers onmessage, onerror and onclose, then the dialer
\* replaces onerror and registers onopen.
BDialNew(ctor) ==
    /\ bpc = "new"
    /\ IF ctor = "absent"
       THEN /\ bpc' = "done"
            /\ dialRet' = [conn |-> DialOutcome("noWebSocket").conn,
                           err |-> DialOutcome("noWebSocket").err,
                           via |-> "noWebSocket", seen |-> readyState]
            /\ UNCHANGED <<readyState, onerrorBy>>
       ELSE IF ctor = "throws"
       THEN /\ bpc' = "panic"
            /\ UNCHANGED <<dialRet, readyState, onerrorBy>>
       ELSE /\ bpc' = "select"
            /\ readyState' = "CONNECTING"
            /\ onerrorBy' = "dialer"
            /\ UNCHANGED dialRet
    /\ UNCHANGED <<connVars, hpc, request, admit, options, status, wrapped, hookCalls,
                   exitCause, uVars, iVars, dVars, ctxDone, closeFired, openCh, errCh, loopBlocked,
                   bWsCloses, bConn, bReadVars, bCloseCalls, nBEvents>>

\* A faulty dialer that leaves the WebSocket alone when its context is done.
DialCancelNeverCloses(state) == FALSE

\* if jsWebSocket.Get("readyState").Int() == 0 { jsWebSocket.Call("close") }
DialCancelCloses(state) == state = "CONNECTING"

\* The select of the dialer. A select that finds its context done takes that
\* case; a parked select is woken by the first of onopen's send, onerror's
\* send and the cancellation, and takes the case of what woke it: the
\* cancellation is not taken once a send was handed to the select.
BDialSelect ==
    /\ bpc = "select"
    /\ bpc' = "done"
    /\ \/ /\ openCh > 0
          /\ openCh' = IF loopBlocked = "onopen" THEN openCh ELSE openCh - 1
          /\ loopBlocked' = IF loopBlocked = "onopen" THEN "none" ELSE loopBlocked
          /\ dialRet' = [conn |-> DialOutcome("open").conn, err |-> DialOutcome("open").err,
                         via |-> "open", seen |-> readyState]
          /\ UNCHANGED <<errCh, readyState, bWsCloses>>
       \/ /\ errCh > 0
          /\ errCh' = IF loopBlocked = "onerror" THEN errCh ELSE errCh - 1
          /\ loopBlocked' = IF loopBlocked = "onerror" THEN "none" ELSE loopBlocked
          /\ dialRet' = [conn |-> DialOutcome("error").conn, err |-> DialOutcome("error").err,
                         via |-> "error", seen |-> readyState]
          /\ UNCHANGED <<openCh, readyState, bWsCloses>>
       \/ /\ ctxDone
          /\ openCh = 0 /\ errCh = 0
          /\ dialRet' = [conn |-> DialOutcome("ctx").conn, err |-> DialOutcome("ctx").err,
                         via |-> "ctx", seen |-> readyState]
          /\ IF DialCancelCloses(readyState)
             THEN /\ bWsCloses' = [bWsCloses EXCEPT !.dialer = @ + 1]
                  /\ readyState' = AfterJsClose(readyState)
             ELSE UNCHANGED <<bWsCloses, readyState>>
          /\ UNCHANGED <<openCh, errCh, loopBlocked>>
    /\ UNCHANGED <<connVars, hpc, request, admit, options, status, wrapped, hookCalls,
                   exitCause, uVars, iVars, dVars, ctxDone, closeFired, onerrorBy, bConn, bReadVars,
                   bCloseCalls, nBEvents>>

\* A faulty receive that takes the newest message of the channel.
ReceivedNewest(q) == [msg |-> q[Len(q)], rest |-> SubSeq(q, 1, Len(q) - 1)]

\* incomingMessage := <-incomingMessagesChannel: a receive takes the oldest
\* buffered message of the channel.
Received(q) == [msg |-> Head(q), rest |-> Tail(q)]

\* A browser Read whose destination buffer has length len returns (n, err)
\* with the bytes `data`.
BReadReturns(len, n, err, data) ==
    /\ bLastRead' = [n |-> n, err |-> err, dst |-> len, data |-> data, done |-> TRUE]
    /\ bStreamOk' = (bStreamOk /\ n = Len(data) /\ IsPrefix(data, bUnread))
    /\ bUnread' = Drop(bUnread, Min(Len(data), Len(bUnread)))
    /\ bRdPc' = "idle"

\* Read: the closed check, which returns (0, net.ErrClosed) on a closed adapter.
BReadBegin ==
    /\ AdapterInUse
    /\ bRdPc = "idle"
    /\ IF bClosed
       THEN /\ bLastRead' = [n |-> 0, err |-> ErrClosed, dst |-> 0, data |-> <<>>,
                              done |-> TRUE]
            /\ UNCHANGED <<bRdPc, bUnread, bStreamOk>>
       ELSE /\ bRdPc' = "select"
            /\ UNCHANGED <<bLastRead, bUnread, bStreamOk>>
    /\ UNCHANGED <<connVars, hpc, request, admit, options, status, wrapped, hookCalls,
                   exitCause, uVars, iVars, dVars, bDial, readyState, closeFired, loopBlocked, bWsCloses, bConn,
                   bCloseCalls, nBEvents>>

\* Read: the select on the two channels, which takes any one of its ready
\* cases. A closed channel yields what it still buffers, then reports closed.
\* bytesRead := copy(destinationBuffer, incomingMessage) with len the length of
\* destinationBuffer: the rest of the message is discarded.
BReadSelect(len) ==
    /\ bRdPc = "select"
    /\ \/ /\ msgCh # <<>>
          /\ msgCh' = Received(msgCh).rest
          /\ BReadReturns(len, Len(Copied(len, Received(msgCh).msg)), Nil,
                          Copied(len, Received(msgCh).msg))
          /\ UNCHANGED bErrs
       \/ /\ msgCh = <<>> /\ bClosed
          /\ BReadReturns(len, 0, ErrClosed, <<>>)
          /\ UNCHANGED <<msgCh, bErrs>>
       \/ /\ bErrs # <<>>
          /\ bErrs' = Tail(bErrs)
          /\ BReadReturns(len, 0, Head(bErrs), <<>>)
          /\ UNCHANGED msgCh
       \/ /\ bErrs = <<>> /\ bClosed
          /\ BReadReturns(len, 0, ErrClosed, <<>>)
          /\ UNCHANGED <<msgCh, bErrs>>
    /\ UNCHANGED <<connVars, hpc, request, admit, options, status, wrapped, hookCalls,
                   exitCause, uVars, iVars, dVars, bDial, readyState, closeFired, loopBlocked, bWsCloses, bClosed,
                   bOnceRuns, bCloseCalls, nBEvents>>

\* Close(): closeChannels(), then the WebSocket's close method; returns nil.
BClose ==
    /\ AdapterInUse
    /\ bCloseCalls < MaxClosers
    /\ bCloseCalls' = bCloseCalls + 1
    /\ CloseChannels
    /\ bWsCloses' = [bWsCloses EXCEPT !.adapter = @ + 1]
    /\ readyState' = AfterJsClose(readyState)
    /\ UNCHANGED <<connVars, hpc, request, admit, options, status, wrapped, hookCalls,
                   exitCause, uVars, iVars, dVars, bDial, closeFired, loopBlocked, msgCh, bErrs, bReadVars,
                   nBEvents>>

BrowserNext ==
    \/ \E ctor \in Constructors : BDialNew(ctor)
    \/ CtxCancel
    \/ BOpenEvent
    \/ BErrorEvent
    \/ \E len \in 0..MaxMsgLen : BMessageEvent(Payload(nBEvents, len))
    \/ BCloseEvent
    \/ BDialSelect
    \/ BReadBegin
    \/ \E len \in BufLens : BReadSelect(len)
    \/ BClose

BrowserSpec == BrowserInit /\ [][BrowserNext]_vars

\* ----------------------------------------- a browser adapter under more
\* events than its channels hold
\* The adapter is made by NewWebSocketConn directly, so its own onerror stays
\* registered. The server sends up to QueueEvents one-byte messages, which is
\* more than incomingMessagesChannel holds; error events are not counted
\* because an error carries no payload.
QueueEvents == IncomingCap + MaxSends

QueueInit == BrowserInit /\ bpc = "direct"

QMessageEvent(messageBytes) ==
    /\ LoopFree
    /\ readyState \in {"OPEN", "CLOSING"}
    /\ nBEvents < QueueEvents
    /\ nBEvents' = nBEvents + 1
    /\ OnMessage(messageBytes)
    /\ UNCHANGED <<connVars, hpc, request, admit, options, status, wrapped, hookCalls,
                   exitCause, uVars, iVars, dVars, bDial, readyState, closeFired, loopBlocked, bWsCloses, bClosed,
                   bOnceRuns, bErrs, bRdPc, bLastRead, bStreamOk, bCloseCalls>>

QErrorEvent ==
    /\ LoopFree
    /\ ~closeFired
    /\ readyState' = "CLOSED"
    /\ IF onerrorBy = "dialer" THEN DialerOnError ELSE AdapterOnError
    /\ UNCHANGED <<connVars, hpc, request, admit, options, status, wrapped, hookCalls,
                   exitCause, uVars, iVars, dVars, bpc, ctxDone, closeFired, openCh, dialRet, onerrorBy,
                   bWsCloses, bClosed, bOnceRuns, msgCh, bReadVars, bCloseCalls, nBEvents>>

QueueNext ==
    \/ BOpenEvent
    \/ QErrorEvent
    \/ QMessageEvent(Payload(nBEvents, 1))
    \/ BCloseEvent
    \/ BReadBegin
    \/ \E len \in BufLens : BReadSelect(len)
    \/ BClose

QueueSpec == QueueInit /\ [][QueueNext]_vars

\* ----------------------------------------- both kinds of adapter, with
\* callers that keep reading
\* The caller of the browser adapter keeps calling Read.
BReadStep == BReadBegin \/ \E len \in BufLens : BReadSelect(len)

\* A session of the Go adapters, or a browser adapter and its dialer.
TunnelInit == Init \/ BrowserInit

\* A session between two Go adapters in which each side is closed by one
\* caller: the writing adapter sends binary messages only.
SessionNext ==
    \/ \E e \in Readers : ReadStep(e)
    \/ \E e \in Writers, p \in Payloads : TunnelWriteBegin(e, p)
    \/ \E e \in Writers : TunnelWriteIO(e)
    \/ \E e \in Writers, p \in Payloads : BridgeWriteBegin(e, p)
    \/ \E e \in Writers : BridgeWriteIO(e)
    \/ \E e \in Ends : CloseEnter(e, 1)
    \/ \E e \in Ends : CloseSetClosed(e, 1)
    \/ \E e \in Ends : CloseDo(e, 1)

TunnelNext ==
    \/ bpc = "off" /\ SessionNext
    \/ BrowserNext

\* Reads that can begin or return do so, at a Go adapter and at the browser
\* adapter.
TunnelFairSpec ==
    /\ TunnelInit
    /\ [][TunnelNext]_vars
    /\ \A e \in Readers : WF_vars(bpc = "off" /\ ReadStep(e))
    /\ WF_vars(BReadStep)

\* A browser adapter whose caller keeps calling Read: a Read that can begin
\* or leave its select does so.
BrowserFairSpec == BrowserInit /\ [][BrowserNext]_vars /\ WF_vars(BReadStep)

\* ================================== the deadline setters of pkg/bridge
notDeadlineVars == <<connVars, hpc, request, admit, options, status, wrapped, hookCalls,
                     exitCause, bVars, uVars, iVars>>

SetReturns(op, e, t) ==
    lastSet' = [op |-> op, e |-> e, t |-> t, err |-> Nil, done |-> TRUE]

\* c.readDeadline = deadline; c.writeDeadline = deadline; return nil
SetDeadline(e, t) ==
    /\ impl = "bridge"
    /\ deadlines' = [deadlines EXCEPT ![e] = [read |-> t, write |-> t]]
    /\ SetReturns("SetDeadline", e, t)
    /\ UNCHANGED notDeadlineVars

\* A faulty SetReadDeadline, copied from SetDeadline.
SetReadDeadlineBoth(e, t) ==
    /\ impl = "bridge"
    /\ deadlines' = [deadlines EXCEPT ![e] = [read |-> t, write |-> t]]
    /\ SetReturns("SetReadDeadline", e, t)
    /\ UNCHANGED notDeadlineVars

\* c.readDeadline = deadline; return nil
SetReadDeadline(e, t) ==
    /\ impl = "bridge"
    /\ deadlines' = [deadlines EXCEPT ![e].read = t]
    /\ SetReturns("SetReadDeadline", e, t)
    /\ UNCHANGED notDeadlineVars

\* c.writeDeadline = deadline; return nil
SetWriteDeadline(e, t) ==
    /\ impl = "bridge"
    /\ deadlines' = [deadlines EXCEPT ![e].write = t]
    /\ SetReturns("SetWriteDeadline", e, t)
    /\ UNCHANGED notDeadlineVars

DeadlineInit == Init /\ impl = "bridge"

\* A session of pkg/bridge adapters whose deadlines are set at any time.
DeadlineNext ==
    \/ \E e \in Ends, t \in Times : SetDeadline(e, t)
    \/ \E e \in Ends, t \in Times : SetReadDeadline(e, t)
    \/ \E e \in Ends, t \in Times : SetWriteDeadline(e, t)
    \/ \E e \in Readers : BridgeReadBegin(e)
    \/ \E e \in Readers, len \in BufLens : BridgeReadIO(e, len)
    \/ \E e \in Writers : BridgeWriteBegin(e, HPayload)
    \/ \E e \in Writers : BridgeWriteIO(e)

DeadlineSpec == DeadlineInit /\ [][DeadlineNext]_vars

\* ============================ concurrent sessions of one handler (Wrap)
\* Each request runs the handler function in its own goroutine. The handler's
\* `ws` and `conn` are locals of that call; options, upgrader and grpcServer
\* are shared and only read.
otherVars == <<connVars, hpc, request, admit, options, status, wrapped, hookCalls,
               exitCause, bVars, uVars, dVars>>

IsoInit ==
    /\ impl = "grpctunnel"
    /\ ConnIdle
    /\ HandlerIdle
    /\ BrowserIdle
    /\ ClientIdle
    /\ DeadlineIdle
    /\ sHpc = [s \in Sessions |-> "start"]
    /\ sConn = [s \in Sessions |-> 0]
    /\ heap = <<>>
    /\ sWs = [s \in Sessions |-> NoSocket]
    /\ sIo = [s \in Sessions |-> [rd |-> "idle", wr |-> "idle"]]

\* A faulty allocator that hands out the address of the first adapter again.
NewConnReused(objects) == 1

\* &webSocketConn{ws: ws}: the address of a newly allocated object.
NewConn(objects) == Len(objects) + 1

\* The adapter object a session's handler holds, and its WebSocket.
ConnOf(s) == heap[sConn[s]]

\* upgrader.Upgrade(w, r, nil) for the request of session s: an error ends the
\* handler; otherwise the library makes a WebSocket for this request.
IUpgrade(s) ==
    /\ sHpc[s] = "start"
    /\ \/ /\ sHpc' = [sHpc EXCEPT ![s] = "done"]
          /\ UNCHANGED sWs
       \/ /\ sHpc' = [sHpc EXCEPT ![s] = "upgraded"]
          /\ sWs' = [sWs EXCEPT ![s] = [NoSocket EXCEPT !.made = TRUE, !.open = TRUE]]
    /\ UNCHANGED <<otherVars, sConn, heap, sIo>>

\* options.onConnect(r)
IConnectHook(s) ==
    /\ sHpc[s] = "upgraded"
    /\ sHpc' = [sHpc EXCEPT ![s] = "hooked"]
    /\ UNCHANGED <<otherVars, sConn, heap, sWs, sIo>>

\* conn := newWebSocketConn(ws)
IWrap(s) ==
    /\ sHpc[s] = "hooked"
    /\ LET c == NewConn(heap)
           object == [ws |-> s, reader |-> NoReader, closed |-> FALSE]
       IN  /\ heap' = [a \in 1..Max(c, Len(heap)) |-> IF a = c THEN object ELSE heap[a]]
           /\ sConn' = [sConn EXCEPT ![s] = c]
    /\ sHpc' = [sHpc EXCEPT ![s] = "serving"]
    /\ UNCHANGED <<otherVars, sWs, sIo>>

\* The client of session s sends its message on its WebSocket: a binary
\* message or a text message. In these sessions each client sends one message
\* and each HTTP/2 server writes one.
IPeerSend(s, type) ==
    /\ sWs[s].open
    /\ ~sWs[s].sent
    /\ sWs' = [sWs EXCEPT ![s].sent = TRUE,
                          ![s].inbound =
                 Append(@, IF type = BinaryMessage
                           THEN Msg(BinaryMessage, Payload(s, MaxMsgLen))
                           ELSE Msg(TextMessage, TextPayload))]
    /\ UNCHANGED <<otherVars, sHpc, sConn, heap, sIo>>

\* The network connection of session s fails.
IFail(s) ==
    /\ sWs[s].open
    /\ sWs' = [sWs EXCEPT ![s].open = FALSE]
    /\ UNCHANGED <<otherVars, sHpc, sConn, heap, sIo>>

\* conn.Read(p) in session s, called by the HTTP/2 server while it serves:
\* the closed check under the read lock, which returns (0, io.EOF) on a
\* closed adapter.
IReadBegin(s) ==
    /\ sHpc[s] = "serving"
    /\ sIo[s].rd = "idle"
    /\ sIo' = [sIo EXCEPT ![s].rd = IF ConnOf(s).closed THEN "idle" ELSE "io"]
    /\ UNCHANGED <<otherVars, sHpc, sConn, heap, sWs>>

\* c.reader.Read(p) in session s, len(p) = len: at the end of the message the
\* reader is dropped and Read returns (0, nil); otherwise it returns between 1
\* and len(p) of the remaining bytes, or, once the connection is closed or
\* has failed, the connection's error, c.reader and its rest staying as they
\* are.
IReaderRead(s, len) ==
    LET c == sConn[s]
        rd == ConnOf(s).reader
    IN  \/ /\ rd.rest = <<>>
           /\ heap' = [heap EXCEPT ![c].reader = NoReader]
        \/ /\ rd.rest # <<>>
           /\ \E n \in 1..Min(len, Len(rd.rest)) :
                heap' = [heap EXCEPT ![c].reader = [open |-> TRUE, rest |-> Drop(rd.rest, n)]]
        \/ /\ ~sWs[ConnOf(s).ws].open
           /\ UNCHANGED heap

\* conn.Read(p), len(p) = len, after the closed check, with no lock held.
\* With a message in progress it goes to c.reader.Read(p) at once. Otherwise
\* c.ws.NextReader(), which waits for a message and fails once the connection
\* is closed: a non-binary message is consumed and Read returns (0, io.EOF); a
\* binary message is taken and its reader stored in c.reader, and
\* c.reader.Read(p) is a second call into the connection. The handler may
\* have gone on to its deferred calls meanwhile.
IReadIO(s, len) ==
    /\ sIo[s].rd = "io"
    /\ LET c == sConn[s]
           w == ConnOf(s).ws
       IN  IF ConnOf(s).reader.open
           THEN /\ IReaderRead(s, len)
                /\ sIo' = [sIo EXCEPT ![s].rd = "idle"]
                /\ UNCHANGED sWs
           ELSE IF sWs[w].inbound # <<>> /\ sWs[w].open
           THEN /\ sWs' = [sWs EXCEPT ![w].inbound = Tail(@)]
                /\ IF IsBinary(Head(sWs[w].inbound).type)
                   THEN /\ heap' = [heap EXCEPT ![c].reader =
                                      [open |-> TRUE, rest |-> Head(sWs[w].inbound).data]]
                        /\ sIo' = [sIo EXCEPT ![s].rd = "rd"]
                   ELSE /\ sIo' = [sIo EXCEPT ![s].rd = "idle"]
                        /\ UNCHANGED heap
           ELSE /\ ~sWs[w].open
                /\ sIo' = [sIo EXCEPT ![s].rd = "idle"]
                /\ UNCHANGED <<heap, sWs>>
    /\ UNCHANGED <<otherVars, sHpc, sConn>>

\* conn.Read(p), len(p) = len: c.reader.Read(p) on the reader of the binary
\* message NextReader has just returned.
IReadPayload(s, len) ==
    /\ sIo[s].rd = "rd"
    /\ IReaderRead(s, len)
    /\ sIo' = [sIo EXCEPT ![s].rd = "idle"]
    /\ UNCHANGED <<otherVars, sHpc, sConn, sWs>>

\* conn.Write(p) in session s, called by the HTTP/2 server while it serves:
\* the closed check under the read lock, which returns (0, io.ErrClosedPipe)
\* on a closed adapter.
IWriteBegin(s) ==
    /\ sHpc[s] = "serving"
    /\ sIo[s].wr = "idle"
    /\ sWs[ConnOf(s).ws].out = 0
    /\ sIo' = [sIo EXCEPT ![s].wr = IF ConnOf(s).closed THEN "idle" ELSE "io"]
    /\ UNCHANGED <<otherVars, sHpc, sConn, heap, sWs>>

\* conn.Write(p) after the closed check, with no lock held:
\* c.ws.WriteMessage(websocket.BinaryMessage, p) puts one binary message on
\* c.ws, unless the connection is closed or failed.
IWriteIO(s) ==
    /\ sIo[s].wr = "io"
    /\ LET w == ConnOf(s).ws
       IN  sWs' = IF ~sWs[w].open THEN sWs
                  ELSE [sWs EXCEPT ![w].out = @ + 1]
    /\ sIo' = [sIo EXCEPT ![s].wr = "idle"]
    /\ UNCHANGED <<otherVars, sHpc, sConn, heap>>

\* h2Server.ServeConn returns.
IServeReturn(s) ==
    /\ sHpc[s] = "serving"
    /\ sHpc' = [sHpc EXCEPT ![s] = "served"]
    /\ UNCHANGED <<otherVars, sConn, heap, sWs, sIo>>

\* The deferred conn.Close(), first part: c.closed = true under the write
\* lock, which is released before the WebSocket is closed.
ISetClosed(s) ==
    /\ sHpc[s] = "served"
    /\ heap' = [heap EXCEPT ![sConn[s]].closed = TRUE]
    /\ sHpc' = [sHpc EXCEPT ![s] = "closing"]
    /\ UNCHANGED <<otherVars, sConn, sWs, sIo>>

\* The deferred conn.Close(), second part: c.ws.Close().
IClose(s) ==
    /\ sHpc[s] = "closing"
    /\ sWs' = [sWs EXCEPT ![ConnOf(s).ws].open = FALSE, ![ConnOf(s).ws].closes = @ + 1]
    /\ sHpc' = [sHpc EXCEPT ![s] = "closed"]
    /\ UNCHANGED <<otherVars, sConn, heap, sIo>>

\* The deferred options.onDisconnect(r), then the deferred ws.Close().
IDisconnectHook(s) ==
    /\ sHpc[s] = "closed"
    /\ sHpc' = [sHpc EXCEPT ![s] = "unhooked"]
    /\ UNCHANGED <<otherVars, sConn, heap, sWs, sIo>>

IWsClose(s) ==
    /\ sHpc[s] = "unhooked"
    /\ sWs' = [sWs EXCEPT ![s].open = FALSE, ![s].closes = @ + 1]
    /\ sHpc' = [sHpc EXCEPT ![s] = "done"]
    /\ UNCHANGED <<otherVars, sConn, heap, sIo>>

IsoNext ==
    \E s \in Sessions :
        \/ IUpgrade(s)
        \/ IConnectHook(s)
        \/ IWrap(s)
        \/ \E type \in {BinaryMessage, TextMessage} : IPeerSend(s, type)
        \/ IFail(s)
        \/ IReadBegin(s)
        \/ \E len \in BufLens : IReadIO(s, len)
        \/ \E len \in BufLens : IReadPayload(s, len)
        \/ IWriteBegin(s)
        \/ IWriteIO(s)
        \/ IServeReturn(s)
        \/ ISetClosed(s)
        \/ IClose(s)
        \/ IDisconnectHook(s)
        \/ IWsClose(s)

IsoSpec == IsoInit /\ [][IsoNext]_vars

\* The adapter state of session s: its closed flag, the rest of the message
\* its reader holds, and its WebSocket.
AdapterState(s) ==
    IF sConn[s] = 0 THEN [conn |-> FALSE, closed |-> FALSE, reader |-> NoReader, ws |-> NoSocket]
    ELSE [conn |-> TRUE, closed |-> ConnOf(s).closed, reader |-> ConnOf(s).reader,
          ws |-> sWs[ConnOf(s).ws]]

\* ======================================= URL inference and the dialers
\* Strings are sequences of characters.
WsPrefix == <<"w", "s", ":", "/", "/">>
WssPrefix == <<"w", "s", "s", ":", "/", "/">>
Localhost == <<"l", "o", "c", "a", "l", "h", "o", "s", "t">>
SchemeSep == <<":", "/", "/">>

\* strings.HasPrefix(str, prefix)
HasPrefix(str, prefix) == Len(prefix) <= Len(str) /\ Take(str, Len(prefix)) = prefix

\* scheme := "ws"; if useTLS { scheme = "wss" }
Scheme(useTLS) == IF useTLS THEN <<"w", "s", "s">> ELSE <<"w", "s">>

\* A faulty normalizer without the bare-port rule.
InferWithoutLocalhost(target, useTLS) ==
    IF HasPrefix(target, WsPrefix) \/ HasPrefix(target, WssPrefix)
    THEN target
    ELSE Scheme(useTLS) \o SchemeSep \o target

\* inferWebSocketURL(target string, useTLS bool) string, of the non-browser client
inferWebSocketURL(target, useTLS) ==
    IF HasPrefix(target, WsPrefix) \/ HasPrefix(target, WssPrefix)
    THEN target
    ELSE LET hostPort == IF HasPrefix(target, <<":">>) THEN Localhost \o target
                         ELSE target
         IN  Scheme(useTLS) \o SchemeSep \o hostPort

\* location := js.Global().Get("location"): absent, or the page's protocol and
\* host.
Locations ==
    { NoLocation,
      [truthy |-> TRUE, protocol |-> "http:", host |-> <<"p">>],
      [truthy |-> TRUE, protocol |-> "https:", host |-> <<"p", ":", "8">>],
      [truthy |-> TRUE, protocol |-> "file:", host |-> <<>>] }

\* A faulty normalizer that takes the scheme from no page: always ws.
InferBrowserAlwaysWs(target, location) ==
    IF HasPrefix(target, WsPrefix) \/ HasPrefix(target, WssPrefix) THEN target
    ELSE IF target = <<>> THEN WsPrefix \o location.host
    ELSE IF target[1] = "/" THEN WsPrefix \o location.host \o target
    ELSE WsPrefix \o target

\* inferBrowserWebSocketURL(target string) string, of the browser client, with
\* window.location as a second argument.
inferBrowserWebSocketURL(target, location) ==
    IF Len(target) >= 5 /\ Take(target, 5) = WsPrefix THEN target
    ELSE IF Len(target) >= 6 /\ Take(target, 6) = WssPrefix THEN target
    ELSE IF ~location.truthy
         THEN IF target = <<>>
              THEN WsPrefix \o Localhost \o <<":", "8", "0", "8", "0">>
              ELSE WsPrefix \o target
    ELSE LET scheme == IF location.protocol = "https:" THEN <<"w", "s", "s">>
                       ELSE <<"w", "s">>
         IN  IF target = <<>> THEN scheme \o SchemeSep \o location.host
             ELSE IF Len(target) > 0 /\ target[1] = "/"
                  THEN scheme \o SchemeSep \o location.host \o target
             ELSE scheme \o SchemeSep \o target

\* The targets the normalizers are applied to: every string made of one of
\* these beginnings and up to MaxTailLen further characters.
MaxTailLen == 2
TailChars == {"h", ":", "/", "8"}
Beginnings == { <<>>, WsPrefix, WssPrefix, <<"w", "s", ":", "/">>, <<"w", "s", "s", ":">>,
                <<"w">> }
Tails == UNION {[1..n -> TailChars] : n \in 0..MaxTailLen}
Targets == {b \o t : b \in Beginnings, t \in Tails}

\* The targets a dialer is constructed for: a WebSocket URL, host:port, a
\* bare host and a bare port.
DialTargets == { WsPrefix \o <<"h", ":", "8">>, WssPrefix \o <<"h", ":", "8">>,
                 <<"h", ":", "8">>, <<"h">>, <<":", "8">> }

\* The options a caller passes to Dial / DialContext: gRPC dial options. The
\* parameter's type is grpc.DialOption, which a ClientOption (what WithTLS
\* returns) is not: no caller can pass a TLS option to Dial / DialContext.
OptionLists == { <<>>, <<"grpc">>, <<"grpc", "grpc">> }

\* The ClientOptions handed to newWebSocketDialer by a caller inside the
\* package: WithTLS(config) with a configuration ("config") or with nil.
TunnelOptionLists == { <<>>, <<"config">>, <<"nil">>, <<"config", "nil">>, <<"nil", "config">> }

ClientInit ==
    /\ impl = "grpctunnel"
    /\ ConnIdle
    /\ HandlerIdle
    /\ BrowserIdle
    /\ IsoIdle
    /\ DeadlineIdle
    /\ uTarget \in Targets \cup DialTargets
    /\ uInferred = NoInferred
    /\ uBrowser = NoBrowserInferred
    /\ dDialer = NoDialer
    /\ dialed = [a \in Addrs |-> NotDialed]

\* The normalizer of the non-browser client is applied to the target.
UInfer(useTLS) ==
    /\ ~uInferred.done
    /\ uInferred' = [done |-> TRUE, useTLS |-> useTLS,
                      url |-> inferWebSocketURL(uTarget, useTLS)]
    /\ UNCHANGED <<connVars, hpc, request, admit, options, status, wrapped, hookCalls,
                   exitCause, bVars, iVars, dVars, uTarget, uBrowser, dDialer, dialed>>

\* The normalizer of the browser client is applied to the target.
UInferBrowser(location) ==
    /\ ~uBrowser.done
    /\ uBrowser' = [done |-> TRUE, location |-> location,
                    url |-> inferBrowserWebSocketURL(uTarget, location)]
    /\ UNCHANGED <<connVars, hpc, request, admit, options, status, wrapped, hookCalls,
                   exitCause, bVars, iVars, dVars, uTarget, uInferred, dDialer, dialed>>

\* A faulty DialContext that hands a TLS option to the dialer.
TunnelOptsWithTLS(opts) == <<"config">>

\* The loop of DialContext over opts: an option that satisfies the interface
\* is dropped (_ = co), every other one goes to grpcOpts; nothing is ever
\* appended to tunnelOpts.
TunnelOpts(opts) == <<>>

\* newWebSocketDialer applies the tunnel options to clientOptions, each
\* WithTLS setting options.tlsConfig, so that the last one decides:
\* options.tlsConfig != nil.
TLSConfigured(tunnelOpts) == tunnelOpts # <<>> /\ tunnelOpts[Len(tunnelOpts)] # "nil"

\* newWebSocketDialer(target, opts...) constructs the dialer, which fixes
\* wsURL; `by` names the caller.
UNewDialer(by, opts, tunnelOpts) ==
    /\ uTarget \in DialTargets
    /\ ~dDialer.done
    /\ dDialer' = [done |-> TRUE, kind |-> "grpctunnel", by |-> by, opts |-> opts,
                   tunnelOpts |-> tunnelOpts,
                   wsURL |-> inferWebSocketURL(uTarget, TLSConfigured(tunnelOpts))]
    /\ UNCHANGED <<connVars, hpc, request, admit, options, status, wrapped, hookCalls,
                   exitCause, bVars, iVars, dVars, uTarget, uInferred, uBrowser, dialed>>

\* pkg/grpctunnel: DialContext(ctx, target, opts...) constructs the dialer
\* newWebSocketDialer(target, tunnelOpts...).
UDialContext(opts) == UNewDialer("DialContext", opts, TunnelOpts(opts))

\* pkg/grpctunnel: newWebSocketDialer called by code of the package with
\* ClientOptions of its own.
UDialerDirect(tunnelOpts) == UNewDialer("newWebSocketDialer", <<>>, tunnelOpts)

\* pkg/bridge: DialOption(websocketURL) constructs a dialer for that URL.
UDialOption ==
    /\ uTarget \in DialTargets
    /\ HasPrefix(uTarget, WsPrefix) \/ HasPrefix(uTarget, WssPrefix)
    /\ ~dDialer.done
    /\ dDialer' = [done |-> TRUE, kind |-> "bridge", by |-> "DialOption", opts |-> <<>>,
                   tunnelOpts |-> <<>>, wsURL |-> uTarget]
    /\ UNCHANGED <<connVars, hpc, request, admit, options, status, wrapped, hookCalls,
                   exitCause, bVars, iVars, dVars, uTarget, uInferred, uBrowser, dialed>>

\* url.Parse(wsURL) followed by u.String(), for a URL scheme://host[:port]
\* with a lower-case scheme, a host of letters and a numeric port: the URL
\* is parsed without error and printed as it was; a URL that consists of a
\* scheme alone, scheme://, is printed as scheme:.
URLString(u) ==
    IF u = WsPrefix THEN <<"w", "s", ":">>
    ELSE IF u = WssPrefix THEN <<"w", "s", "s", ":">>
    ELSE u

\* A faulty dialer whose URL depends on the address the gRPC client supplies.
DialsAddr(kind, wsURL, addr) == IF addr = "passthrough:///a" THEN wsURL ELSE <<>>

\* The URL a dialer hands to the WebSocket library's DialContext when it is
\* invoked with addr: u.String() in pkg/grpctunnel, websocketURL in pkg/bridge.
DialedURL(kind, wsURL, addr) ==
    IF kind = "grpctunnel" THEN URLString(wsURL) ELSE wsURL

\* The gRPC client invokes the dialer with a context and the address addr.
UDialerCall(addr) ==
    /\ dDialer.done
    /\ ~dialed[addr].done
    /\ dialed' = [dialed EXCEPT ![addr] =
                    [done |-> TRUE, url |-> DialedURL(dDialer.kind, dDialer.wsURL, addr)]]
    /\ UNCHANGED <<connVars, hpc, request, admit, options, status, wrapped, hookCalls,
                   exitCause, bVars, iVars, dVars, uTarget, uInferred, uBrowser, dDialer>>

ClientNext ==
    \/ \E useTLS \in BOOLEAN : UInfer(useTLS)
    \/ \E location \in Locations : UInferBrowser(location)
    \/ \E opts \in OptionLists : UDialContext(opts)
    \/ \E tunnelOpts \in TunnelOptionLists : UDialerDirect(tunnelOpts)
    \/ UDialOption
    \/ \E addr \in Addrs : UDialerCall(addr)

ClientSpec == ClientInit /\ [][ClientNext]_vars

\* ================================================================ claims
\* ---- C1: round-trip fidelity. The bytes the Reads of the receiving adapter
\* returned are always a prefix of the concatenation of the payloads written
\* with a nil error (each Read returns exactly the next bytes of that stream),
\* every byte not yet returned is still held, in order, in the adapter's
\* remainder or in the WebSocket's queue, and as long as no Close of the
\* receiving end has set its closed flag or closed its WebSocket, its Reads
\* eventually return all of them.
C1_NoByteLost ==
    \A e \in Readers :
        /\ streamOk[e]
        /\ unread[e] = Remainder(e) \o BinaryBytes(inbound[e])

C1_RoundTrip ==
    /\ []C1_NoByteLost
    /\ \A e \in Readers :
         (unread[e] # <<>>) ~> (unread[e] = <<>> \/ closed[e] \/ WsClosed(e))

\* A message larger than the read buffer was written, and Reads returned it
\* whole, the last of them from the remainder.
C1_Witness ==
    /\ lastWrite["client"].done
    /\ lastWrite["client"].err = Nil
    /\ lastWrite["client"].n = MaxMsgLen
    /\ wrPc["client"] = "idle"
    /\ lastRead["server"].done
    /\ lastRead["server"].took = "none"
    /\ lastRead["server"].n > 0
    /\ lastRead["server"].err = Nil
    /\ unread["server"] = <<>>
    /\ streamOk["server"]

\* ---- C2: write atomicity. A Write(b) that returned a nil error returned
\* n = len(b) and put exactly one binary message with payload b on the wire;
\* a Write that returned an error returned n = 0 and sent nothing.
C2_WriteAtomic ==
    \A e \in Writers :
        (lastWrite[e].done /\ wrPc[e] = "idle") =>
            /\ lastWrite[e].err = Nil =>
                 /\ lastWrite[e].n = Len(wrData[e])
                 /\ lastWrite[e].sent = <<[type |-> BinaryMessage, data |-> wrData[e]]>>
            /\ lastWrite[e].err # Nil =>
                 /\ lastWrite[e].n = 0
                 /\ lastWrite[e].sent = <<>>

\* A Write of a payload of the greatest length succeeded and its message is
\* the last one in the peer's queue.
C2_Witness ==
    /\ lastWrite["client"].done
    /\ wrPc["client"] = "idle"
    /\ lastWrite["client"].err = Nil
    /\ lastWrite["client"].n = MaxMsgLen
    /\ inbound["server"] # <<>>
    /\ inbound["server"][Len(inbound["server"])].data = wrData["client"]

\* ---- C3: Close executes once. However many Close() calls are made on an
\* adapter, and however they interleave, the underlying WebSocket's Close is
\* invoked at most once, and exactly once as soon as any Close() has returned.
C3_CloseOnce ==
    \A e \in Ends :
        /\ wsCloseCalls[e] <= 1
        /\ CloseReturned(e) => wsCloseCalls[e] = 1

\* Every Close() call on the server's adapter has returned.
C3_Witness ==
    /\ \A i \in Closers : clPc["server"][i] = "done"
    /\ wsCloseCalls["server"] = 1

\* The errors of the closed kinds: the closed-connection error net.ErrClosed
\* and the closed-pipe error io.ErrClosedPipe.
ClosedKinds == {ErrClosed, ErrClosedPipe}

\* ---- C4 as stated: once Close() has returned, every later Read returns 0
\* bytes and a closed-connection error, every later Write 0 bytes and a
\* closed-pipe error, neither touching the WebSocket. Either error of the
\* closed kinds is accepted from either call; io.EOF, the end of the stream,
\* is not one of them.
C4_AsStated ==
    /\ \A e \in Readers :
         (lastRead[e].done /\ lastRead[e].afterClose) =>
             /\ lastRead[e].n = 0
             /\ lastRead[e].err \in ClosedKinds
             /\ ~lastRead[e].usedWs
    /\ \A e \in Writers :
         (lastWrite[e].done /\ lastWrite[e].afterClose) =>
             /\ lastWrite[e].n = 0
             /\ lastWrite[e].err \in ClosedKinds
             /\ ~lastWrite[e].usedWs

\* ---- C5 as stated: all Close() calls on one adapter return the same value,
\* also when the WebSocket close of the first call returned an error.
C5_SameValue ==
    \A e \in Ends : \A i, j \in Closers :
        (clPc[e][i] = "done" /\ clPc[e][j] = "done") => closeRet[e][i] = closeRet[e][j]

\* ---- C6: hook ordering. For a request whose upgrade succeeded, a configured
\* connect hook is invoked once, before the first Read on the session's
\* adapter begins, and a configured disconnect hook is invoked once, only
\* after ServeConn has returned (whatever made it return) and by the time the
\* handler returns.
C6_HookOrdering ==
    Upgraded =>
        /\ options.onConnect =>
             /\ hookCalls.connect <= 1
             /\ (rdPc["server"] # "idle" \/ lastRead["server"].done)
                    => hookCalls.connect = 1
             /\ hpc = "done" => hookCalls.connect = 1
        /\ options.onDisconnect =>
             /\ hookCalls.disconnect <= 1
             /\ hookCalls.disconnect = 1 => exitCause \in {"readError", "protocolError"}
             /\ hpc \in {"start", "upgraded", "hooked", "serving"}
                    => hookCalls.disconnect = 0
             /\ hpc = "done" => hookCalls.disconnect = 1

\* A session with both hooks configured ended because a Read failed, and the
\* handler has returned.
C6_Witness ==
    /\ hpc = "done"
    /\ Upgraded
    /\ options.onConnect
    /\ options.onDisconnect
    /\ hookCalls = [connect |-> 1, disconnect |-> 1]
    /\ lastRead["server"].done
    /\ exitCause = "readError"

\* ---- C7 as stated: when the handler has returned, the disconnect hook has
\* fired if and only if the connect hook has, whichever hooks are configured.
C7_AsStated ==
    hpc = "done" => (hookCalls.disconnect > 0 <=> hookCalls.connect > 0)

\* ---- C7: hook pairing. When the handler has returned, each hook has fired
\* if and only if the upgrade succeeded and that hook is configured; so the
\* disconnect hook has fired if and only if the connect hook has whenever both
\* hooks are configured or neither is, and a disconnect hook configured
\* without a connect hook fires on its own.
C7_HookPairing ==
    hpc = "done" =>
        /\ hookCalls.connect > 0 <=> (Upgraded /\ options.onConnect)
        /\ hookCalls.disconnect > 0 <=> (Upgraded /\ options.onDisconnect)
        /\ (options.onConnect = options.onDisconnect) =>
               (hookCalls.disconnect > 0 <=> hookCalls.connect > 0)

\* A session with only the disconnect hook configured has ended.
C7_Witness ==
    /\ hpc = "done"
    /\ Upgraded
    /\ ~options.onConnect
    /\ options.onDisconnect
    /\ hookCalls = [connect |-> 0, disconnect |-> 1]

\* Nothing of a session exists: no adapter, no Read or Write, no frame on the
\* wire, no hook invoked, and the handler never reached ServeConn.
NoSession ==
    /\ ~wrapped
    /\ hpc \in {"start", "done"}
    /\ hookCalls = [connect |-> 0, disconnect |-> 0]
    /\ \A e \in Ends : inbound[e] = <<>> /\ wsCloseCalls[e] = 0
    /\ \A e \in Ends : ~lastRead[e].done /\ ~lastWrite[e].done
    /\ \A e \in Ends : rdPc[e] = "idle" /\ wrPc[e] = "idle"
    /\ exitCause = "none"

\* ---- C8: admission. A request the admission predicate refuses is never
\* answered 101; it is answered with an HTTP error status, and nothing of a
\* session exists for it: no adapter, no frame, no serve loop, no hook.
C8_Admission ==
    ~admit =>
        /\ status # 101
        /\ hpc = "done" => status \in 400..599
        /\ NoSession

\* A well-formed upgrade request was refused by the admission predicate.
C8_Witness ==
    /\ ~admit
    /\ hpc = "done"
    /\ request = [method |-> "GET", upgrade |-> TRUE, version |-> TRUE, key |-> TRUE]
    /\ status = 403

\* A request that is not a valid WebSocket handshake.
BadHandshake(r) == r.method # "GET" \/ ~r.upgrade \/ ~r.version \/ ~r.key

\* ---- C9: upgrade failure. A request that is not a valid WebSocket handshake
\* (wrong method, missing upgrade headers, unsupported version) is answered
\* with an HTTP error status and the handler returns without creating an
\* adapter, serving HTTP/2 or invoking a hook.
C9_UpgradeFailure ==
    BadHandshake(request) =>
        /\ status # 101
        /\ hpc = "done" => status \in 400..599
        /\ NoSession

\* A request with the wrong method, which admission would accept, was answered.
C9_Witness ==
    /\ admit
    /\ hpc = "done"
    /\ request.method = "POST"
    /\ request.upgrade
    /\ status = 405

\* ---- C10 as stated: the Read that takes a text message from the WebSocket
\* returns 0 bytes and a closed-connection error (an error of the closed
\* kinds; io.EOF, the end of the stream, is not one of them), and none of the
\* message's bytes is delivered to the caller.
C10_AsStated ==
    \A e \in Readers :
        /\ (lastRead[e].done /\ lastRead[e].took = TextMessage) =>
               /\ lastRead[e].n = 0
               /\ lastRead[e].err \in ClosedKinds
        /\ streamOk[e]

\* ---- C11: cancellation during dial. A dialer whose context is done before
\* it has observed the open event (or an error event), that is, whose select
\* runs with the context done and no event's send handed to it, returns on
\* the cancellation. A dial that returned on the cancellation gave the
\* context's error and no adapter, its context was done, and the WebSocket is
\* not OPEN then nor afterwards. A WebSocket the dialer found still
\* CONNECTING it has closed, with one call of the close method; the only
\* other state it can find is CLOSED, and then it makes no call.
C11_CancelDuringDial ==
    /\ []((bpc = "done" /\ dialRet.via = "ctx") =>
             /\ ctxDone
             /\ dialRet.err = CtxErr
             /\ ~dialRet.conn
             /\ readyState # "OPEN"
             /\ dialRet.seen \in {"CONNECTING", "CLOSED"}
             /\ dialRet.seen = "CONNECTING" =>
                   (bWsCloses.dialer = 1 /\ readyState \in {"CLOSING", "CLOSED"})
             /\ dialRet.seen = "CLOSED" =>
                   (bWsCloses.dialer = 0 /\ readyState = "CLOSED"))
    /\ [][(bpc = "select" /\ bpc' = "done") =>
             /\ (ctxDone /\ openCh = 0 /\ errCh = 0) => dialRet'.via = "ctx"
             /\ dialRet'.via = "ctx" => (ctxDone /\ openCh = 0 /\ errCh = 0)]_vars

\* The context was cancelled while the dialer waited in its select on a
\* connecting WebSocket; the dialer closed it and returned the context's
\* error, and the close event followed.
C11_Witness ==
    /\ bpc = "done"
    /\ dialRet.via = "ctx" /\ dialRet.err = CtxErr /\ ~dialRet.conn
    /\ dialRet.seen = "CONNECTING"
    /\ bWsCloses.dialer = 1
    /\ readyState = "CLOSED" /\ closeFired
    /\ nBEvents = 0

\* ---- C12 as stated: whatever events arrive, no callback registered by the
\* dialer or the adapter is ever waiting in a channel send.
C12_AsStated == loopBlocked = "none"

\* ---- C13 as stated: after k >= 1 calls of Close() on the browser adapter,
\* the adapter has invoked the WebSocket's close method exactly once.
C13_AsStated == bCloseCalls >= 1 => bWsCloses.adapter = 1

\* ---- C14 as stated: the browser adapter's Reads return the enqueued
\* payloads' bytes in order and lose none: every byte that was enqueued and
\* that no Read has returned is still in the message queue.
C14_AsStated ==
    /\ bStreamOk
    /\ bUnread = Flatten(msgCh)

\* ---- C15: URL inference (non-browser). The normalizer returns a target
\* that starts with ws:// or wss:// unchanged, maps a bare port :p to
\* scheme://localhost:p and any other target t to scheme://t, where scheme is
\* wss when TLS is in effect and ws otherwise.
C15_URLInference ==
    uInferred.done =>
        LET t == uTarget
            r == uInferred.url
            prefix == IF uInferred.useTLS THEN WssPrefix ELSE WsPrefix
        IN  /\ (HasPrefix(t, WsPrefix) \/ HasPrefix(t, WssPrefix)) => r = t
            /\ (t # <<>> /\ t[1] = ":") => r = prefix \o Localhost \o t
            /\ (~HasPrefix(t, WsPrefix) /\ ~HasPrefix(t, WssPrefix)
                  /\ ~(t # <<>> /\ t[1] = ":")) => r = prefix \o t
            /\ HasPrefix(r, WsPrefix) \/ HasPrefix(r, WssPrefix)

\* The bare port :8 was normalized under TLS.
C15_Witness ==
    /\ uInferred.done
    /\ uInferred.useTLS
    /\ uTarget = <<":", "8">>
    /\ uInferred.url = WssPrefix \o Localhost \o <<":", "8">>

\* ---- C16: URL inference (browser). A target that starts with ws:// or
\* wss:// is returned unchanged; with a host page context the empty target
\* becomes scheme://host and a target that begins with / becomes
\* scheme://host/path, where scheme is wss if the page protocol is https: and
\* ws otherwise.
C16_BrowserInference ==
    uBrowser.done =>
        LET t == uTarget
            r == uBrowser.url
            loc == uBrowser.location
            prefix == IF loc.protocol = "https:" THEN WssPrefix ELSE WsPrefix
        IN  /\ (HasPrefix(t, WsPrefix) \/ HasPrefix(t, WssPrefix)) => r = t
            /\ (loc.truthy /\ t = <<>>) => r = prefix \o loc.host
            /\ (loc.truthy /\ t # <<>> /\ t[1] = "/") => r = prefix \o loc.host \o t

\* A path was normalized on an https page.
C16_Witness ==
    /\ uBrowser.done
    /\ uBrowser.location.protocol = "https:"
    /\ uTarget = <<"/", "h">>
    /\ uBrowser.url = WssPrefix \o <<"p", ":", "8", "/", "h">>

\* The targets of the form host[:port].
HostPortTargets == {<<"h", ":", "8">>, <<"h">>}

\* ---- C17: the TLS option selects the scheme. For a host[:port] target the
\* URL a pkg/grpctunnel dialer connects to starts with wss:// if and only if
\* a TLS configuration was supplied to it, and with ws:// otherwise. No TLS
\* option can be passed to Dial / DialContext, whose options are gRPC dial
\* options: the dialer they construct gets no tunnel option and connects to
\* ws://target.
C17_TLSSelectsScheme ==
    \A a \in Addrs :
        (dDialer.done /\ dDialer.kind = "grpctunnel" /\ dialed[a].done
           /\ uTarget \in HostPortTargets) =>
            /\ dDialer.by = "DialContext" =>
                  /\ dDialer.tunnelOpts = <<>>
                  /\ dialed[a].url = WsPrefix \o uTarget
            /\ TLSConfigured(dDialer.tunnelOpts) <=> dialed[a].url = WssPrefix \o uTarget
            /\ ~TLSConfigured(dDialer.tunnelOpts) <=> dialed[a].url = WsPrefix \o uTarget

\* DialContext was called with a gRPC dial option and the target h:8, and
\* its dialer connected to ws://h:8.
C17_Witness ==
    /\ dDialer.done
    /\ dDialer.by = "DialContext"
    /\ dDialer.opts = <<"grpc">>
    /\ uTarget = <<"h", ":", "8">>
    /\ dialed["passthrough:///a"].done
    /\ dialed["passthrough:///a"].url = WsPrefix \o uTarget

\* ---- C18: the WebSocket URL is authoritative. Every invocation of a dialer
\* connects to the URL that was fixed when the dialer was constructed,
\* whatever address the gRPC client supplies: two invocations with different
\* addresses connect to the same URL.
C18_URLAuthoritative ==
    /\ \A a \in Addrs : dialed[a].done => dialed[a].url = dDialer.wsURL
    /\ \A a1, a2 \in Addrs :
         (dialed[a1].done /\ dialed[a2].done) => dialed[a1].url = dialed[a2].url

\* A dialer made by DialContext was invoked with two different addresses.
C18_Witness ==
    /\ dDialer.done
    /\ dDialer.kind = "grpctunnel"
    /\ \A a \in Addrs : dialed[a].done
    /\ uTarget = <<"h", ":", "8">>

\* ---- C19: an abrupt close is observed. Once the client has closed its
\* WebSocket, a Read of the server's adapter, pending or issued later, does
\* not block forever: Reads keep returning, and from some point on every
\* Read that returned did so with a non-nil error. The same holds for the
\* Reads of the browser adapter once its WebSocket is CLOSED and the close
\* event has been delivered (the peer closed it and onclose ran).
C19_CloseObserved ==
    /\ []<>(/\ WsClosed("client") =>
                 /\ rdPc["server"] = "idle"
                 /\ lastRead["server"].done
                 /\ lastRead["server"].err # Nil
            /\ (AdapterInUse /\ readyState = "CLOSED" /\ closeFired) =>
                 /\ bRdPc = "idle"
                 /\ bLastRead.done
                 /\ bLastRead.err # Nil)
    /\ <>[](/\ (WsClosed("client") /\ rdPc["server"] = "idle") =>
                 (lastRead["server"].done /\ lastRead["server"].err # Nil)
            /\ (AdapterInUse /\ readyState = "CLOSED" /\ closeFired /\ bRdPc = "idle") =>
                 (bLastRead.done /\ bLastRead.err # Nil))

\* The client closed its WebSocket and a Read of the server's adapter that
\* went to the WebSocket returned the error of the close.
C19_Witness ==
    /\ WsClosed("client")
    /\ ~WsClosed("server")
    /\ rdPc["server"] = "idle"
    /\ lastRead["server"].usedWs
    /\ lastRead["server"].err = WsCloseError

\* Session s took the step: its handler or a Read or Write of its adapter
\* moved, its adapter was made, or its client or connection acted on its
\* WebSocket.
SessionActed(s) ==
    \/ sHpc'[s] # sHpc[s]
    \/ sIo'[s] # sIo[s]
    \/ sConn'[s] # sConn[s]
    \/ sWs'[s] # sWs[s]

\* ---- C20: session isolation. A step of one session (a Read, Write or
\* Close of its adapter, a failure of its connection, a hook, any step of its
\* handler) leaves the adapter state of every other session unchanged: its
\* closed flag, the remainder its reader holds and its WebSocket. No two
\* sessions hold the same adapter or the same WebSocket.
C20_SessionIsolation ==
    [][/\ \A s, t \in Sessions : (SessionActed(s) /\ SessionActed(t)) => s = t
       /\ \A s \in Sessions : ~SessionActed(s) => AdapterState(s)' = AdapterState(s)
       /\ \A s, t \in Sessions :
            (s # t /\ sConn'[s] # 0 /\ sConn'[t] # 0) =>
                /\ sConn'[s] # sConn'[t]
                /\ heap'[sConn'[s]].ws # heap'[sConn'[t]].ws]_vars

\* Session 1 was closed while session 2, still open, holds the rest of a
\* message.
C20_Witness ==
    /\ sHpc[1] = "closed"
    /\ sHpc[2] = "serving"
    /\ AdapterState(1).closed
    /\ ~AdapterState(2).closed
    /\ AdapterState(2).reader.rest # <<>>
    /\ AdapterState(2).ws.open

\* ---- C21: the deadline setters only store (pkg/bridge). SetDeadline sets
\* both stored deadlines, SetReadDeadline leaves the write deadline and
\* SetWriteDeadline the read deadline as it was; each returns nil and leaves
\* every other field of the adapters and their WebSockets unchanged, so that
\* later Reads and Writes go on returning the written stream, whole messages
\* and no error, whatever deadlines were set.
C21_DeadlinesStored ==
    /\ [][(lastSet' # lastSet \/ deadlines' # deadlines) =>
            LET e == lastSet'.e
                t == lastSet'.t
            IN  /\ lastSet'.done
                /\ lastSet'.err = Nil
                /\ lastSet'.op = "SetDeadline" =>
                     deadlines'[e] = [read |-> t, write |-> t]
                /\ lastSet'.op = "SetReadDeadline" =>
                     deadlines'[e] = [read |-> t, write |-> deadlines[e].write]
                /\ lastSet'.op = "SetWriteDeadline" =>
                     deadlines'[e] = [read |-> deadlines[e].read, write |-> t]
                /\ deadlines'[Peer(e)] = deadlines[Peer(e)]
                /\ UNCHANGED connVars]_vars
    /\ [](\A e \in Ends :
            /\ lastRead[e].err = Nil
            /\ lastWrite[e].err = Nil
            /\ streamOk[e]
            /\ (lastWrite[e].done /\ wrPc[e] = "idle") =>
                 lastWrite[e].sent = <<Msg(BinaryMessage, wrData[e])>>)

\* With the read deadline of the server's adapter in the past and its write
\* deadline still zero, a Write of the client was read whole.
C21_Witness ==
    /\ lastSet.op = "SetReadDeadline"
    /\ deadlines["server"] = [read |-> "past", write |-> "zero"]
    /\ deadlines["client"].write = "past"
    /\ lastRead["server"].done
    /\ lastRead["server"].n > 0
    /\ lastWrite["client"].done
    /\ wrPc["client"] = "idle"
    /\ unread["server"] = <<>>

\* The Write call that byte b of the stream was the payload of.
MessageOf(b) == (b - 1) \div Stride

\* ---- C22: the remainder invariant (pkg/bridge). The remainder is always the
\* unread suffix of exactly one message: consecutive bytes of one message,
\* after a part that was returned, up to that message's end, and the next
\* bytes the caller is to get. A Read that has passed the closed check while
\* the remainder is not empty returns at least one byte, taken from the front
\* of the remainder, which shrinks by what was returned, and takes nothing
\* from the WebSocket.
C22_RemainderInvariant ==
    /\ [](\A e \in Readers :
            LET r == readBuf[e] IN
            (impl = "bridge" /\ r # <<>>) =>
                /\ \A i \in 1..Len(r) :
                     r[i] = r[1] + i - 1 /\ MessageOf(r[i]) = MessageOf(r[1])
                /\ r[1] - MessageOf(r[1]) * Stride > 1
                /\ IsPrefix(r, unread[e])
                /\ Len(unread[e]) > Len(r) =>
                     MessageOf(unread[e][Len(r) + 1]) # MessageOf(r[1]))
    /\ [][\A e \in Readers :
            (impl = "bridge" /\ rdPc[e] = "io" /\ rdPc'[e] = "idle" /\ readBuf[e] # <<>>) =>
                LET n == lastRead'[e].n IN
                /\ n >= 1
                /\ n <= Len(readBuf[e])
                /\ \A i \in 1..n : unread[e][i] = readBuf[e][i]
                /\ lastRead'[e].err = Nil
                /\ ~lastRead'[e].usedWs
                /\ lastRead'[e].took = "none"
                /\ streamOk'[e] = streamOk[e]
                /\ unread'[e] = Drop(unread[e], n)
                /\ readBuf'[e] = Drop(readBuf[e], n)
                /\ Len(readBuf'[e]) < Len(readBuf[e])
                /\ inbound' = inbound
                /\ wsCloseCalls' = wsCloseCalls]_vars

\* A Read returned two bytes from the front of a remainder of three and left
\* a rest of one, while another message was waiting in the WebSocket.
C22_Witness ==
    /\ impl = "bridge"
    /\ lastRead["server"].done
    /\ lastRead["server"].n = 2
    /\ ~lastRead["server"].usedWs
    /\ Len(readBuf["server"]) = 1
    /\ readBuf["server"][1] - MessageOf(readBuf["server"][1]) * Stride = 4
    /\ inbound["server"] # <<>>
    /\ Head(inbound["server"]).type = BinaryMessage
    /\ streamOk["server"]

\* ---- C23 as stated: a Read (its buffer is never empty here) returns at
\* least one byte or an error, never (0, nil).
C23_AsStated ==
    \A e \in Readers :
        lastRead[e].done => (lastRead[e].n >= 1 \/ lastRead[e].err # Nil)

\* ---- C24: end-of-message is not an error. The Read of pkg/grpctunnel that
\* meets the end of the message in progress (the library's reader returns
\* io.EOF) does not return io.EOF: on an open connection it returns no error
\* and no bytes and drops the reader, and the following Read takes the next
\* message from the WebSocket and, the connection still being open, returns
\* its first bytes. io.EOF reaches the caller only from the closed check or
\* for a text frame; pkg/bridge reads whole messages and never returns io.EOF.
C24_EndOfMessage ==
    /\ [][\A e \in Readers :
            (impl = "grpctunnel" /\ rdPc[e] # "idle" /\ rdPc'[e] = "idle") =>
                /\ (reader[e].open /\ reader[e].rest = <<>>) =>
                     /\ lastRead'[e].err # EOF
                     /\ ~WsClosed(e) =>
                          /\ lastRead'[e].err = Nil
                          /\ lastRead'[e].n = 0
                          /\ ~reader'[e].open
                          /\ inbound' = inbound
                          /\ unread' = unread
                /\ (rdPc[e] = "rd" /\ ~WsClosed(e)) =>
                     /\ lastRead'[e].err = Nil
                     /\ lastRead'[e].took = BinaryMessage
                     /\ inbound' = inbound
                     /\ lastRead'[e].n = Min(lastRead'[e].n, Len(reader[e].rest))
                     /\ unread'[e] = Drop(unread[e], lastRead'[e].n)
                     /\ streamOk'[e] = streamOk[e]]_vars
    /\ [][\A e \in Readers :
            (impl = "grpctunnel" /\ rdPc[e] = "io" /\ ~reader[e].open /\ ~WsClosed(e)
               /\ inbound[e] # <<>> /\ Head(inbound[e]).type = BinaryMessage
               /\ rdPc'[e] # rdPc[e]) =>
                /\ rdPc'[e] = "rd"
                /\ inbound'[e] = Tail(inbound[e])
                /\ reader'[e] = [open |-> TRUE, rest |-> Head(inbound[e]).data]
                /\ unread' = unread
                /\ lastRead' = lastRead]_vars
    /\ [](\A e \in Readers :
            (lastRead[e].done /\ lastRead[e].err = EOF) =>
                /\ impl = "grpctunnel"
                /\ lastRead[e].took = TextMessage \/ ~lastRead[e].usedWs)

\* After a message was consumed and a Read met its end, the following Read
\* returned bytes of the next message.
C24_Witness ==
    /\ impl = "grpctunnel"
    /\ nSends = 2
    /\ lastRead["server"].done
    /\ lastRead["server"].took = BinaryMessage
    /\ lastRead["server"].n > 0
    /\ lastRead["server"].err = Nil
    /\ inbound["server"] = <<>>
    /\ unread["server"] # <<>>
    /\ Len(unread["server"]) < MaxMsgLen
    /\ MessageOf(unread["server"][1]) = 1
    /\ streamOk["server"]

\* ---- C25 as stated: a text frame terminates the session. Once a Read of an
\* adapter has taken a text frame, the Read that returns next on that adapter
\* returns no bytes and an error.
C25_AsStated ==
    [][\A e \in Readers :
         (lastRead[e].done /\ lastRead[e].took = TextMessage
            /\ rdPc[e] # "idle" /\ rdPc'[e] = "idle") =>
             (lastRead'[e].n = 0 /\ lastRead'[e].err # Nil)]_vars

\* ---- C26: the inbound queue of a browser adapter never holds more than 10
\* messages and its error queue never more than 2 errors, however many events
\* the browser delivers and however slowly Read consumes them.
C26_QueuesBounded == Len(msgCh) <= IncomingCap /\ Len(bErrs) <= ErrorCap

\* Both queues are full and more message events were delivered than the
\* inbound queue holds, with no Read having taken any.
C26_Witness ==
    /\ Len(msgCh) = IncomingCap
    /\ Len(bErrs) = ErrorCap
    /\ nBEvents > IncomingCap
    /\ ~bLastRead.done

\* ---- C27: a message event that finds the inbound queue full drops its
\* payload and changes nothing else: the queued messages and their order, the
\* error queue and the closed flag stay as they were, and a later message
\* event that finds room on the open adapter is enqueued at the end.
C27_DropChangesNothing ==
    /\ [][(nBEvents' = nBEvents + 1 /\ ~bClosed /\ Len(msgCh) = IncomingCap) =>
             (msgCh' = msgCh /\ bErrs' = bErrs /\ bClosed' = bClosed)]_vars
    /\ [][(nBEvents' = nBEvents + 1 /\ ~bClosed /\ Len(msgCh) < IncomingCap) =>
             (msgCh' = Append(msgCh, Payload(nBEvents, 1)) /\ bClosed' = bClosed)]_vars

\* A message was dropped and a later one accepted: the open adapter's queue
\* holds two neighbours that did not arrive one after the other.
C27_Witness ==
    /\ ~bClosed
    /\ \E i \in 1..(Len(msgCh) - 1) :
           MessageOf(msgCh[i + 1][1]) > MessageOf(msgCh[i][1]) + 1

\* ---- C28 as stated: the first error or close signal closes the adapter.
\* Once an error event has put its error into the adapter's error queue, or
\* the close event has been delivered, the closed flag is set (so that a Read
\* or Write started afterwards fails at its closed check).
C28_AsStated == (bErrs # <<>> \/ closeFired) => bClosed

\* ---- C29 as stated: steady-state error delivery. Once the dialer has
\* returned an adapter, an error event of the WebSocket reaches that adapter:
\* on an open adapter with room in its error queue the event enqueues
\* net.ErrClosed, which a pending or later Read returns. An error event is the
\* step in which one of the two onerror functions acts.
C29_AsStated ==
    [][(/\ bpc = "done" /\ dialRet.conn
        /\ ~bClosed /\ Len(bErrs) < ErrorCap
        /\ nBEvents' = nBEvents + 1
        /\ (errCh' > errCh \/ loopBlocked' = "onerror" \/ Len(bErrs') > Len(bErrs)))
          => bErrs' = Append(bErrs, ErrClosed)]_vars

\* ---- C30: each successful Read of the browser adapter removes exactly one
\* message from the inbound queue, the one that arrived first, and returns its
\* first min(len(dst), len(message)) bytes; the queue holds the messages in
\* the order of their arrival.
C30_ReadTakesOldest ==
    /\ [][(bRdPc = "select" /\ bRdPc' = "idle" /\ bLastRead'.err = Nil) =>
             /\ msgCh # <<>>
             /\ msgCh' = Tail(msgCh)
             /\ bLastRead'.n = Min(bLastRead'.dst, Len(Head(msgCh)))
             /\ bLastRead'.data = Take(Head(msgCh), bLastRead'.n)]_vars
    /\ [](\A i \in 1..Len(msgCh) : \A j \in 1..Len(msgCh) :
             i < j => MessageOf(msgCh[i][1]) < MessageOf(msgCh[j][1]))

\* A Read with a one-byte buffer returned the first byte of the first
\* message, which has two bytes, while the second message stays queued.
C30_Witness ==
    /\ bLastRead.done /\ bLastRead.err = Nil
    /\ bLastRead.dst = 1
    /\ bLastRead.data = Take(Payload(0, 2), 1)
    /\ bUnread # <<>> /\ bUnread[1] = Payload(0, 2)[2]
    /\ msgCh = <<Payload(1, 2)>>

\* ---- C31: no reader is left blocked after close. A Read of the browser
\* adapter that waits in its select on empty queues once Close() has been
\* called or the close event has fired returns, and what it returns is
\* (0, net.ErrClosed).
BlockedAtClose ==
    /\ bRdPc = "select"
    /\ msgCh = <<>> /\ bErrs = <<>>
    /\ (bCloseCalls > 0 \/ closeFired)

C31_NoReaderLeftBlocked ==
    /\ BlockedAtClose ~> (bRdPc = "idle")
    /\ [][(BlockedAtClose /\ bRdPc' = "idle") =>
             (bLastRead'.n = 0 /\ bLastRead'.err = ErrClosed)]_vars

\* No message or error event was ever delivered, a Read passed its closed
\* check and waited in the select, and it returned the closed error after the
\* close event.
C31_Witness ==
    /\ nBEvents = 0
    /\ readyState = "CLOSED" /\ closeFired /\ bCloseCalls = 0
    /\ bRdPc = "idle"
    /\ bLastRead.done /\ bLastRead.dst > 0
    /\ bLastRead.err = ErrClosed

\* ---- C32: the queues are closed exactly once. Under any interleaving of
\* Close() calls and the close event, the function that closes the two queues
\* has run at most once, it has run once Close() was called or the close
\* event fired, and the adapter is closed exactly when it has run.
C32_ClosedExactlyOnce ==
    /\ bOnceRuns <= 1
    /\ (bCloseCalls > 0 \/ closeFired) => bOnceRuns = 1
    /\ bClosed <=> bOnceRuns = 1

\* Close() was called twice and the close event fired as well.
C32_Witness ==
    /\ bCloseCalls = MaxClosers
    /\ readyState = "CLOSED" /\ closeFired
    /\ bOnceRuns = 1

\* ---- C33: callbacks stop publishing after close. Under any interleaving
\* of message and error events with Close() and the close event, no step
\* taken while the adapter is closed adds a message or an error to a queue.
C33_NoSendAfterClose ==
    [][bClosed => (Len(msgCh') <= Len(msgCh) /\ Len(bErrs') <= Len(bErrs))]_vars

\* A message event with a payload was delivered to the closed adapter while
\* its WebSocket was still closing, and nothing was enqueued.
C33_Witness ==
    /\ bClosed
    /\ nBEvents = 1
    /\ msgCh = <<>>
    /\ ~bLastRead.done
    /\ readyState = "CLOSING"

\* ---- C34 as stated: the bare-port rule in every normalizer. A target that
\* begins with ":" is normalized to scheme://localhost:p, by the normalizer of
\* the non-browser client and by the one of the browser client, also when a
\* host page exists.
C34_AsStated ==
    (uTarget # <<>> /\ uTarget[1] = ":") =>
        /\ uInferred.done =>
              uInferred.url \in {WsPrefix \o Localhost \o uTarget,
                                 WssPrefix \o Localhost \o uTarget}
        /\ uBrowser.done =>
              uBrowser.url \in {WsPrefix \o Localhost \o uTarget,
                                WssPrefix \o Localhost \o uTarget}

\* ---- C35 as stated: the browser dial outcome. A dial that has returned
\* gave exactly one of three outcomes, matching the signal it observed: the
\* adapter with a nil error, and then the open event had been delivered; an
\* unavailable-status error and no adapter, and then an error event had been
\* delivered; or the context's error and no adapter, and then the context was
\* done.
C35_AsStated ==
    bpc = "done" =>
        /\ dialRet.conn <=> dialRet.err = Nil
        /\ dialRet.conn <=> dialRet.via = "open"
        /\ dialRet.conn => dialRet.seen = "OPEN"
        /\ dialRet.err = Unavailable <=> dialRet.via = "error"
        /\ dialRet.err = Unavailable => nBEvents > 0
        /\ dialRet.err = CtxErr <=> dialRet.via = "ctx"
        /\ dialRet.err = CtxErr => ctxDone
        /\ dialRet.err \in {Nil, Unavailable, CtxErr}

\* ---- C35, amended: a browser dial that has returned gave exactly one of
\* four outcomes. In an environment without a WebSocket constructor: an
\* unavailable-status error and no adapter, with no WebSocket created and no
\* event observed. Otherwise, matching the signal its select took: the adapter
\* with a nil error, and then the open event had been delivered; an
\* unavailable-status error and no adapter, and then an error event had been
\* delivered; or the context's error and no adapter, and then the context was
\* done.
C35_DialOutcome ==
    bpc = "done" =>
        /\ dialRet.conn <=> dialRet.err = Nil
        /\ dialRet.conn <=> dialRet.via = "open"
        /\ dialRet.conn => dialRet.seen = "OPEN"
        /\ dialRet.err = Unavailable <=> dialRet.via \in {"error", "noWebSocket"}
        /\ dialRet.via = "error" => nBEvents > 0
        /\ dialRet.via = "noWebSocket" =>
              (readyState = "NONE" /\ nBEvents = 0 /\ onerrorBy = "none")
        /\ dialRet.via # "noWebSocket" => readyState # "NONE"
        /\ dialRet.err = CtxErr <=> dialRet.via = "ctx"
        /\ dialRet.err = CtxErr => ctxDone
        /\ dialRet.err \in {Nil, Unavailable, CtxErr}

\* The dial returned the unavailable status although no WebSocket was ever
\* created and no error event was delivered.
C35_Witness ==
    /\ bpc = "done"
    /\ dialRet.via = "noWebSocket"
    /\ dialRet.err = Unavailable /\ ~dialRet.conn
    /\ readyState = "NONE"
    /\ nBEvents = 0

\* ---- C36 as stated: queued data survives a close event. After the close
\* event (and with no Close() call and no error queued), a Read reports the
\* closed error only when no enqueued message is left: the messages that were
\* queued when the close event arrived are returned first.
C36_AsStated ==
    [][(/\ closeFired /\ bCloseCalls = 0 /\ bErrs = <<>>
        /\ bLastRead' # bLastRead
        /\ bLastRead'.err = ErrClosed)
          => msgCh = <<>>]_vars

\* ---- C37 as stated: no send after close under races. A Write of a
\* pkg/grpctunnel adapter that returns after Close has closed the WebSocket
\* has sent nothing and returns the closed-pipe error.
C37_AsStated ==
    [][\A e \in Writers :
         (impl = "grpctunnel" /\ WsClosed(e) /\ lastWrite'[e] # lastWrite[e]) =>
             (lastWrite'[e].sent = <<>> /\ lastWrite'[e].err = ErrClosedPipe)]_vars

\* ---- C37, amended: a Write of a pkg/grpctunnel adapter that begins once
\* the closed flag is set does not reach the WebSocket: it returns 0 bytes
\* and the closed-pipe error at its closed check. A Write that returns after
\* Close has closed the WebSocket has sent nothing and returns 0 bytes and an
\* error: the closed-pipe error if it saw the closed flag, the error of the
\* WebSocket write if it passed the closed check before Close set the flag.
\* Once the WebSocket is closed no message is added to what the peer receives.
C37_NoSendAfterClose ==
    /\ [][\A e \in Writers :
            (impl = "grpctunnel" /\ closed[e] /\ wrPc[e] = "idle") =>
                /\ wrPc'[e] = "idle"
                /\ lastWrite'[e] # lastWrite[e] =>
                      /\ lastWrite'[e].n = 0
                      /\ lastWrite'[e].err = ErrClosedPipe
                      /\ lastWrite'[e].sent = <<>>
                      /\ ~lastWrite'[e].usedWs]_vars
    /\ [](\A e \in Writers :
            (impl = "grpctunnel" /\ lastWrite[e].done /\ lastWrite[e].afterClose) =>
                (lastWrite[e].err = ErrClosedPipe /\ ~lastWrite[e].usedWs))
    /\ [][\A e \in Writers :
            (impl = "grpctunnel" /\ WsClosed(e) /\ lastWrite'[e] # lastWrite[e]) =>
                /\ lastWrite'[e].sent = <<>>
                /\ lastWrite'[e].n = 0
                /\ lastWrite'[e].err \in {ErrClosedPipe, WsNetError}
                /\ lastWrite'[e].err = ErrClosedPipe <=> ~lastWrite'[e].usedWs]_vars
    /\ [][\A e \in Writers :
            (impl = "grpctunnel" /\ WsClosed(e)) =>
                Len(inbound'[Peer(e)]) <= Len(inbound[Peer(e)])]_vars

\* A Write that passed the closed check before Close returned came back with
\* the error of the WebSocket write, the peer's WebSocket being open.
C37_Witness ==
    /\ impl = "grpctunnel"
    /\ WsClosed("client") /\ ~WsClosed("server")
    /\ lastWrite["client"].done
    /\ ~lastWrite["client"].afterClose
    /\ lastWrite["client"].usedWs
    /\ lastWrite["client"].err = WsNetError
    /\ lastWrite["client"].sent = <<>>

\* ---- C38: a failed dial leaves nothing open. Whenever the browser dialer
\* has returned an error, whatever the interleaving of the open event, error
\* events and the cancellation, the WebSocket it created (if any) was not in
\* the OPEN state when the dialer returned and is not in it afterwards: it
\* was never created, it has failed and is CLOSED, or the dialer found it
\* CONNECTING and closed it.
C38_FailedDialNotOpen ==
    (bpc = "done" /\ dialRet.err # Nil) =>
        /\ dialRet.seen # "OPEN"
        /\ readyState # "OPEN"
        /\ \/ dialRet.via = "noWebSocket" /\ readyState = "NONE"
           \/ dialRet.via = "error" /\ readyState = "CLOSED"
           \/ dialRet.via = "ctx" /\ readyState \in {"CLOSING", "CLOSED"}

\* The dial failed on an error event of the connecting WebSocket, which was
\* CLOSED when the dialer returned; the close event followed.
C38_Witness ==
    /\ bpc = "done"
    /\ dialRet.via = "error" /\ dialRet.err = Unavailable /\ ~dialRet.conn
    /\ dialRet.seen = "CLOSED"
    /\ readyState = "CLOSED" /\ closeFired
    /\ ~ctxDone

\* ---- C39 as stated: single close per session. When the handler of an
\* upgraded session has returned, the close of the session's WebSocket has
\* been invoked exactly once.
C39_AsStated ==
    (hpc = "done" /\ Upgraded) => wsCloseCalls["server"] = 1

====
